---- MODULE Spec2Model ----
(***************************************************************************)
(* A model of the OIDC device-flow authentication manager of               *)
(* evergreen_mcp (src/src/evergreen_mcp/oidc_auth.py): the in-memory token *)
(* triple, the token file, the cached OIDC client, and the three ways      *)
(* ensure_authenticated obtains a token (token file, refresh, device       *)
(* flow).  Every network exchange is one step whose response is chosen     *)
(* from a small set; the coroutine's position is pc.                       *)
(***************************************************************************)
EXTENDS Integers, Sequences, FiniteSets, TLC

VARIABLES
    _access_token,   \* OIDCAuthManager._access_token (None or a token string)
    _refresh_token,  \* OIDCAuthManager._refresh_token
    _user_id,        \* OIDCAuthManager._user_id (None or a string of characters)
    _client,         \* OIDCAuthManager._client is not None
    _metadata,       \* OIDCAuthManager._metadata (None or the discovery document)
    token_file,      \* OIDCAuthManager.token_file is configured
    file,            \* the content of the token file on disk
    now,             \* time.time(), in whole seconds
    op,              \* the public method in progress, or "idle"
    pc,              \* the position inside it
    ret,             \* what the last method to finish returned or raised
    local,           \* local variables of the running methods
    pre,             \* state recorded at the entry of each running method
    cnt,             \* what the current public call has done so far
    calls,           \* public calls started so far
    just_ensured,    \* the last public call to finish was an ensure_authenticated
                     \* that returned True, and no time has passed since
    disk,            \* the directory of the token file, file by file, and the
                     \* processes saving into it (followed in SpecSave)
    gql              \* the EvergreenGraphQLClient that holds the manager, its
                     \* transports and its queries (followed in SpecClient)

vars == <<_access_token, _refresh_token, _user_id, _client, _metadata,
          token_file, file, now, op, pc, ret, local, pre, cnt, calls, just_ensured,
          disk, gql>>

mgr == <<_access_token, _refresh_token, _user_id>>

-----------------------------------------------------------------------------
(* Bounds of the model. *)

\* Public calls made on one manager.
MaxCalls == 2

\* Poll answers that keep one device flow polling.
MaxPolls == 2

\* The clock stops being advanced by idle ticks past Now0 + MaxIdle * TickStep.
MaxIdle == 1

\* The poll interval, in seconds, the server asks for where a device flow is
\* followed to the time ceiling.
LiveInterval == 100

-----------------------------------------------------------------------------
(* Program constants. *)

\* "remaining > 60": the expiry buffer of _check_token_expiry.
ExpiryBuffer == 60

\* device_data.get("interval", 5)
DefaultInterval == 5

\* interval += 2 on slow_down
SlowDownStep == 2

\* max_wait_time = 300
max_wait_time == 300

-----------------------------------------------------------------------------
(* Values. *)

\* Python's None (also JSON null).
None == "None"

\* _user_id is a string of characters; None is kept apart from every string.
NoneId == <<None>>

\* The clock at construction, and the step of an idle tick.
Now0 == 1000
TickStep == 450

\* d.get(k) and d.get(k, default) of a dict, modelled as a function
\* whose domain is the keys present.
Get(d, k) == IF k \in DOMAIN d THEN d[k] ELSE None
GetOr(d, k, dflt) == IF k \in DOMAIN d THEN d[k] ELSE dflt

\* Truth value of an optional string: None and "" are falsy.
Truthy(v) == v \notin {None, ""}

\* dict with d[k] = v set.
SetKey(d, k, v) == (k :> v) @@ d

\* The JWTs of the model and the claims pyjwt.decode yields for each; a token
\* that is no key of this table (such as "Tbad" or "") cannot be decoded.
\* A claim that is absent is no key of the claims dict.
JwtClaims ==
    [ Tgood  |-> [exp |-> Now0 + 500, email |-> <<"a", "@", "x">>, sub |-> <<"s">>],
      Tlong  |-> [exp |-> Now0 + 100000, preferred_username |-> <<"p">>,
                  sub |-> <<"s">>],
      Tshort |-> [exp |-> Now0 + 60, sub |-> <<"s">>],
      Tnoexp |-> [sub |-> <<"s">>],
      Tnoid  |-> [exp |-> Now0 + 100000] ]

Decodable(tok) == tok \in DOMAIN JwtClaims

\* claims.get(k) of a string claim; an absent claim and an empty one are both
\* falsy everywhere they are used, and both are the empty string here.
ClaimStr(claims, k) == IF k \in DOMAIN claims THEN claims[k] ELSE <<>>

\* s.split("@")[0]: the characters before the first "@".
RECURSIVE SplitAtFirst(_)
SplitAtFirst(s) ==
    IF s = <<>> \/ Head(s) = "@" THEN <<>>
    ELSE <<Head(s)>> \o SplitAtFirst(Tail(s))

HasAt(s) == \E i \in 1..Len(s) : s[i] = "@"

\* time.time() is a float: the clock of _check_token_expiry counts ticks,
\* TicksPerSecond of them in a second.
TicksPerSecond == 2

\* int(x) of the float x = n / TicksPerSecond: rounded toward zero.
IntOf(n) ==
    IF n >= 0 THEN n \div TicksPerSecond ELSE -((-n) \div TicksPerSecond)

\* _check_token_expiry: (is_valid, remaining).
Invalid == [is_valid |-> FALSE, remaining |-> 0]

\* A _check_token_expiry that counts a token with exactly the buffer left as
\* valid.
_check_token_expiry_ofInclusive(jwt, token_data, clock) ==
    LET access_token == Get(token_data, "access_token") IN
    IF ~Truthy(access_token) \/ access_token \notin DOMAIN jwt THEN Invalid
    ELSE LET exp == GetOr(jwt[access_token], "exp", 0)
             remaining == exp * TicksPerSecond - clock
         IN IF exp # 0
            THEN [is_valid |-> remaining >= ExpiryBuffer * TicksPerSecond,
                  remaining |-> IntOf(remaining)]
            ELSE Invalid

\* A _check_token_expiry without the except clause of lines 170-173.
_check_token_expiry_ofUncaught(jwt, token_data, clock) ==
    LET access_token == Get(token_data, "access_token") IN
    IF ~Truthy(access_token) THEN Invalid
    ELSE IF access_token \notin DOMAIN jwt
    THEN [is_valid |-> FALSE, remaining |-> 0, raised |-> "DecodeError"]
    ELSE LET claims == jwt[access_token] IN
         IF "exp_nonnumeric" \in DOMAIN claims
         THEN IF Truthy(claims["exp_nonnumeric"])
              THEN [is_valid |-> FALSE, remaining |-> 0, raised |-> "TypeError"]
              ELSE Invalid
         ELSE LET exp == GetOr(claims, "exp", 0)
                  remaining == exp * TicksPerSecond - clock
              IN IF exp # 0
                 THEN [is_valid |-> remaining > ExpiryBuffer * TicksPerSecond,
                       remaining |-> IntOf(remaining)]
                 ELSE Invalid

\* _check_token_expiry of token_data when pyjwt.decode yields jwt[tok] for the
\* tokens tok in the domain of jwt and raises for every other, at the given
\* clock (in ticks).  The exp claim of a token is kept under "exp" when its
\* JSON value is a number and under "exp_nonnumeric" when it is null or a
\* string: a truthy one raises TypeError in the subtraction of line 167, which
\* the except clause of line 170 catches.
_check_token_expiry_of(jwt, token_data, clock) ==
    LET access_token == Get(token_data, "access_token") IN
    IF ~Truthy(access_token) THEN Invalid
    ELSE IF access_token \notin DOMAIN jwt THEN Invalid
    ELSE LET claims == jwt[access_token] IN
         IF "exp_nonnumeric" \in DOMAIN claims
         THEN IF Truthy(claims["exp_nonnumeric"]) THEN Invalid ELSE Invalid
         ELSE LET exp == GetOr(claims, "exp", 0)
                  remaining == exp * TicksPerSecond - clock
              IN IF exp # 0
                 THEN [is_valid |-> remaining > ExpiryBuffer * TicksPerSecond,
                       remaining |-> IntOf(remaining)]
                 ELSE Invalid

\* _check_token_expiry of the model's JWTs, at the whole second t.
_check_token_expiry(token_data, t) ==
    _check_token_expiry_of(JwtClaims, token_data, t * TicksPerSecond)

\* _extract_user_id: the identity, or the OIDCAuthenticationError raised.
Raised(msg) == [raised |-> TRUE, value |-> NoneId, msg |-> msg]
Returned(v) == [raised |-> FALSE, value |-> v, msg |-> ""]

\* An _extract_user_id that looks at sub before preferred_username.
_extract_user_id_ofSubFirst(jwt, access_token) ==
    IF access_token \notin DOMAIN jwt THEN Raised("malformed")
    ELSE LET claims == jwt[access_token]
             email == ClaimStr(claims, "email")
             user_id == IF ClaimStr(claims, "sub") # <<>>
                        THEN ClaimStr(claims, "sub")
                        ELSE ClaimStr(claims, "preferred_username")
         IN IF email # <<>> /\ HasAt(email) THEN Returned(SplitAtFirst(email))
            ELSE IF user_id = <<>> THEN Raised("missing identity claims")
            ELSE Returned(user_id)

\* An _extract_user_id without the clause of lines 203-204 that re-raises its
\* own exception: the clause of line 205 wraps it like any other.
_extract_user_id_ofNoReraise(jwt, access_token) ==
    IF access_token \notin DOMAIN jwt THEN Raised("malformed")
    ELSE LET claims == jwt[access_token]
             email == ClaimStr(claims, "email")
             user_id == IF ClaimStr(claims, "preferred_username") # <<>>
                        THEN ClaimStr(claims, "preferred_username")
                        ELSE ClaimStr(claims, "sub")
         IN IF email # <<>> /\ HasAt(email) THEN Returned(SplitAtFirst(email))
            ELSE IF user_id = <<>> THEN Raised("malformed")
            ELSE Returned(user_id)

\* _extract_user_id of access_token when pyjwt.decode yields jwt[tok] for the
\* tokens tok in the domain of jwt and raises for every other.
_extract_user_id_of(jwt, access_token) ==
    IF access_token \notin DOMAIN jwt THEN Raised("malformed")
    ELSE LET claims == jwt[access_token]
             email == ClaimStr(claims, "email")
             user_id == IF ClaimStr(claims, "preferred_username") # <<>>
                        THEN ClaimStr(claims, "preferred_username")
                        ELSE ClaimStr(claims, "sub")
         IN IF email # <<>> /\ HasAt(email) THEN Returned(SplitAtFirst(email))
            ELSE IF user_id = <<>> THEN Raised("missing identity claims")
            ELSE Returned(user_id)

\* _extract_user_id of the model's JWTs.
_extract_user_id(access_token) == _extract_user_id_of(JwtClaims, access_token)

\* _normalize_token_data at clock t.
_normalize_token_data(token_data, t) ==
    IF "expires_in" \in DOMAIN token_data /\ "expires_at" \notin DOMAIN token_data
    THEN SetKey(token_data, "expires_at", t + token_data["expires_in"])
    ELSE token_data

-----------------------------------------------------------------------------
(* The environment: the token file at construction and the servers' answers. *)

EmptyDict == <<>>

FileOf(token_data) == [exists |-> TRUE, parseable |-> TRUE, data |-> token_data]
NoFile == [exists |-> FALSE, parseable |-> FALSE, data |-> EmptyDict]
GarbageFile == [exists |-> TRUE, parseable |-> FALSE, data |-> EmptyDict]

InitFiles ==
    { NoFile, GarbageFile,
      FileOf([access_token |-> "Tlong", refresh_token |-> "R1"]),
      FileOf([access_token |-> "Tgood"]),
      FileOf([access_token |-> "Tnoid", refresh_token |-> "R1"]),
      FileOf([access_token |-> "Tnoid"]),
      FileOf([access_token |-> "Tshort", refresh_token |-> "R1",
              expires_at |-> Now0 + 60]),
      FileOf([access_token |-> "Tshort"]),
      FileOf([access_token |-> "Tbad", refresh_token |-> "R1"]),
      FileOf([refresh_token |-> "R1"]) }

\* The OIDC discovery document, as far as the manager reads it.
MdFull == [token_endpoint |-> "token", device_authorization_endpoint |-> "device"]
MdNoTokenEndpoint == [device_authorization_endpoint |-> "device"]
MdNoDeviceEndpoint == [token_endpoint |-> "token"]

\* An HTTP exchange: exc (the request raised: network error, timeout), else the
\* status, whether the body parses as JSON, and the body.
Http(status, body) ==
    [exc |-> FALSE, status |-> status, json |-> TRUE, body |-> body, text |-> ""]
HttpText(status) ==
    [exc |-> FALSE, status |-> status, json |-> FALSE, body |-> EmptyDict,
     text |-> "Bad Gateway"]
NetError ==
    [exc |-> TRUE, status |-> 0, json |-> FALSE, body |-> EmptyDict, text |-> ""]

DiscoveryResponses ==
    { NetError, HttpText(500), Http(200, MdFull), Http(200, MdNoTokenEndpoint),
      Http(200, MdNoDeviceEndpoint) }

\* Token-endpoint bodies of a 200 answer.
TokenBodies ==
    { [access_token |-> "Tlong", refresh_token |-> "R2", expires_in |-> 3600],
      [access_token |-> "Tgood"],
      [access_token |-> "Tgood", refresh_token |-> None, expires_at |-> Now0 + 500],
      [access_token |-> "Tshort", refresh_token |-> "R2", expires_in |-> 60,
       expires_at |-> Now0 + 60],
      [access_token |-> "Tnoid", refresh_token |-> "R2"],
      [access_token |-> "Tbad"],
      [refresh_token |-> "R2"] }

RefreshResponses ==
    { NetError, HttpText(200), Http(400, [error |-> "invalid_grant"]) }
    \cup { Http(200, b) : b \in TokenBodies }

\* Answers to the device-code request.  Where the whole manager is explored
\* the server asks for a long interval, which keeps the clock on the grid of
\* the idle ticks; where one device flow is explored (SpecFlow) it also omits
\* the interval, or asks for one just over the time ceiling.
DeviceCodeResponses ==
    { NetError, HttpText(200), Http(400, [error |-> "invalid_client"]),
      Http(200, [user_code |-> "UC"]),
      Http(200, [device_code |-> "DC", user_code |-> "UC",
                 verification_uri |-> "uri", interval |-> TickStep]) }

FlowDeviceCodeResponses ==
    DeviceCodeResponses
    \cup { Http(200, [device_code |-> "DC", user_code |-> "UC",
                      verification_uri |-> "uri"]),
           Http(200, [device_code |-> "DC", verification_uri_complete |-> "uri",
                      interval |-> max_wait_time + 1]) }

PollResponses ==
    { Http(400, [error |-> "authorization_pending"]),
      Http(400, [error |-> "slow_down"]),
      Http(401, [error |-> "authorization_pending"]),
      Http(401, [error |-> "access_denied"]),
      HttpText(401),
      NetError, HttpText(200), HttpText(500),
      Http(400, [error |-> "expired_token"]),
      Http(401, [error |-> "expired_token"]),
      Http(400, [error |-> "access_denied", error_description |-> "denied"]),
      Http(400, [error_description |-> "no code"]) }
    \cup { Http(200, b) : b \in TokenBodies }

-----------------------------------------------------------------------------
(* The directory of the token file, as _save_token (lines 324-363) and        *)
(* check_token_file see it.  json.dump writes a record as a text, here a     *)
(* sequence of chunks: an opening brace, one chunk for each key, a closing   *)
(* brace.  A file is an inode: its content as the processes see it (data)    *)
(* and its content on stable storage (durable), which os.fsync brings up to  *)
(* date.  The token file path and the path of the temporary file each name   *)
(* an inode, or nothing.                                                     *)

\* Processes that save to the same token file path: process 1 runs the
\* manager of this model, the others run managers of their own.
MaxWriters == 2

Writers == 1..MaxWriters

\* Chunks of a text that one write hands to the file.
BufferChunks == 2

Chunk(k, v) == [k |-> k, v |-> v]
LBrace == Chunk("{", "")
RBrace == Chunk("}", "")

\* Bytes never written: what a write past the end of a file leaves before it.
Hole == Chunk("", "")

\* The keys of the token records of this model.
TokenKeys == <<"access_token", "refresh_token", "expires_in", "expires_at">>

RECURSIVE JsonPairs(_, _)
JsonPairs(d, i) ==
    IF i > Len(TokenKeys) THEN <<>>
    ELSE (IF TokenKeys[i] \in DOMAIN d
          THEN <<Chunk(TokenKeys[i], d[TokenKeys[i]])>> ELSE <<>>)
         \o JsonPairs(d, i + 1)

\* A json.dump that leaves out the keys whose value is None.
JsonDumpSkipsNone(d) ==
    <<LBrace>>
    \o SelectSeq(JsonPairs(d, 1), LAMBDA c : ~(c.k = "refresh_token" /\ c.v = None))
    \o <<RBrace>>

\* json.dump(token_data, f, indent=2), line 350: the text of a record.
JsonDump(d) == <<LBrace>> \o JsonPairs(d, 1) \o <<RBrace>>

\* json.load accepts the text: an object, whole, with nothing after it.
JsonParses(text) ==
    /\ Len(text) >= 2
    /\ text[1] = LBrace
    /\ text[Len(text)] = RBrace
    /\ \A i \in 2..(Len(text) - 1) : text[i] \notin {LBrace, RBrace, Hole}

\* json.load(f), line 248: the dict of a text that parses; of a key that
\* occurs twice the last value stands.
JsonLoad(text) ==
    LET at == 2..(Len(text) - 1)
        last(k) == CHOOSE i \in at :
                       text[i].k = k /\ \A j \in at : text[j].k = k => j <= i
    IN [k \in {text[i].k : i \in at} |-> text[last(k)].v]

\* dict without the key k.
DelKey(d, k) == [x \in DOMAIN d \ {k} |-> d[x]]

\* write(2) of chunks at offset pos of a file holding content.
WriteAt(content, pos, chunks) ==
    LET n == IF pos + Len(chunks) > Len(content)
             THEN pos + Len(chunks) ELSE Len(content)
    IN [i \in 1..n |->
          IF i > pos /\ i <= pos + Len(chunks) THEN chunks[i - pos]
          ELSE IF i <= Len(content) THEN content[i]
          ELSE Hole]

\* A process that is not in _save_token.  record and text are the argument of
\* its last _save_token and its JSON text; failed, that the call took the
\* path of a failure.
IdleProc ==
    [pc |-> "idle", fd |-> 0, pos |-> 0, record |-> EmptyDict, text |-> <<>>,
     failed |-> FALSE]

\* An empty directory that the processes can search.
NoDisk ==
    [path |-> EmptyDict, data |-> <<>>, durable |-> <<>>, searchable |-> TRUE,
     proc |-> [w \in Writers |-> IdleProc]]

\* The directory holding the token file with the given text.
DiskOf(text) ==
    [NoDisk EXCEPT !.path = [target |-> 1], !.data = <<text>>, !.durable = <<text>>]

\* The token file as open() and json.load find it (lines 242-248).
TokenFile(d) ==
    IF "target" \notin DOMAIN d.path THEN NoFile
    ELSE IF JsonParses(d.data[d.path["target"]])
    THEN FileOf(JsonLoad(d.data[d.path["target"]]))
    ELSE GarbageFile

-----------------------------------------------------------------------------
(* Returns, counters and recorded state. *)

\* error and description are the two values formatted into the message of the
\* "Authentication failed" exception (line 508).
NoRet ==
    [kind |-> "none", value |-> "", exc |-> "", msg |-> "", error |-> "",
     description |-> "", data |-> EmptyDict]
Return(v) == [NoRet EXCEPT !.kind = "return", !.value = v]
ReturnData(d) == [NoRet EXCEPT !.kind = "return", !.value = "token_data", !.data = d]
Raise(e, m) == [NoRet EXCEPT !.kind = "raise", !.exc = e, !.msg = m]

NoCnt ==
    [discovery |-> 0, refresh |-> 0, device_code |-> 0, poll |-> 0, file_read |-> 0,
     save |-> 0, refresh_calls |-> 0, device_calls |-> 0, refresh_good |-> FALSE,
     pending |-> 0, slow_down |-> 0, rt_ret |-> NoRet, df_ret |-> NoRet]

NoLocal ==
    [token_data |-> EmptyDict, device_data |-> EmptyDict, interval |-> 0,
     start_time |-> 0, response |-> NetError]

Snap == [access_token |-> _access_token, refresh_token |-> _refresh_token,
         user_id |-> _user_id, file |-> file, now |-> now]

NoSnap == [access_token |-> None, refresh_token |-> None, user_id |-> NoneId,
           file |-> NoFile, now |-> 0]

\* The GraphQL client, evergreen_graphql_client.py.

\* The _execute_query calls of a behaviour.
MaxQueries == 2
Queries == 1..MaxQueries

\* A TransportError, or another exception, of execute_async: its class, the
\* status of the answer where it has one, and the words of str(e).
Error(type, code, text) == [type |-> type, code |-> code, text |-> text]
NoError == Error("", 0, <<>>)

\* A query has not been called yet.
IdleQuery ==
    [pc |-> "idle", tr |-> 0, first_tr |-> 0, closing |-> 0, execs |-> 0,
     refreshes |-> 0, connects |-> 0, sent |-> None, e |-> NoError,
     refreshed |-> FALSE, out |-> NoRet]

\* No client has been made.
NoGql ==
    [bearer_token |-> None, api_key |-> FALSE, _auth_manager |-> FALSE,
     _client |-> 0, transports |-> <<>>, outstanding |-> EmptyDict,
     query |-> [q \in Queries |-> IdleQuery]]

Init ==
    /\ _access_token = None
    /\ _refresh_token = None
    /\ _user_id = NoneId
    /\ _client = FALSE
    /\ _metadata = EmptyDict
    /\ token_file \in BOOLEAN
    /\ file \in IF token_file THEN InitFiles ELSE {NoFile}
    /\ now = Now0
    /\ op = "idle"
    /\ pc = "idle"
    /\ ret = NoRet
    /\ local = NoLocal
    /\ pre = [call |-> NoSnap, rt |-> NoSnap, df |-> NoSnap]
    /\ cnt = NoCnt
    /\ calls = 0
    /\ just_ensured = FALSE
    /\ disk = NoDisk
    /\ gql = NoGql

-----------------------------------------------------------------------------
(* Helpers shared by the methods. *)

Bump(k) == [cnt EXCEPT ![k] = @ + 1]

\* A _get_client that fetches the metadata on every call.
_get_clientRefetches(resp) ==
    IF resp.exc \/ resp.status >= 400 \/ ~resp.json
    THEN [client |-> FALSE, metadata |-> _metadata, raised |-> TRUE,
          exc |-> "HTTPError", sent |-> 1]
    ELSE IF "token_endpoint" \notin DOMAIN resp.body
    THEN [client |-> FALSE, metadata |-> resp.body, raised |-> TRUE,
          exc |-> "KeyError", sent |-> 1]
    ELSE [client |-> TRUE, metadata |-> resp.body, raised |-> FALSE, exc |-> "",
          sent |-> 1]

\* _get_client given the discovery answer resp: the client and metadata it
\* leaves, whether it raised, and the requests it sent.  With the client
\* cached nothing is sent.
_get_client(resp) ==
    IF _client
    THEN [client |-> TRUE, metadata |-> _metadata, raised |-> FALSE, exc |-> "",
          sent |-> 0]
    ELSE IF resp.exc \/ resp.status >= 400 \/ ~resp.json
    THEN [client |-> FALSE, metadata |-> _metadata, raised |-> TRUE,
          exc |-> "HTTPError", sent |-> 1]
    ELSE IF "token_endpoint" \notin DOMAIN resp.body
    THEN [client |-> FALSE, metadata |-> resp.body, raised |-> TRUE,
          exc |-> "KeyError", sent |-> 1]
    ELSE [client |-> TRUE, metadata |-> resp.body, raised |-> FALSE, exc |-> "",
          sent |-> 1]

\* A check_token_file that keeps no refresh token of an expired record.
check_token_fileForgets(t) ==
    IF token_file /\ file.exists /\ file.parseable
       /\ "access_token" \in DOMAIN file.data
       /\ _check_token_expiry(file.data, t).is_valid
    THEN [found |-> TRUE, token_data |-> file.data,
          refresh_token |-> _refresh_token, read |-> 1]
    ELSE [found |-> FALSE, token_data |-> EmptyDict,
          refresh_token |-> _refresh_token, read |-> 0]

\* check_token_file at clock t: the record it returns (found) or None, the
\* refresh token it leaves in memory, and whether it opened the file.
check_token_file(t) ==
    LET none(rt, rd) == [found |-> FALSE, token_data |-> EmptyDict,
                         refresh_token |-> rt, read |-> rd]
    IN
    IF ~token_file THEN none(_refresh_token, 0)
    ELSE IF ~file.exists THEN none(_refresh_token, 0)
    ELSE IF ~file.parseable THEN none(_refresh_token, 1)
    ELSE IF "access_token" \notin DOMAIN file.data THEN none(_refresh_token, 1)
    ELSE IF _check_token_expiry(file.data, t).is_valid
    THEN [found |-> TRUE, token_data |-> file.data,
          refresh_token |-> _refresh_token, read |-> 1]
    ELSE IF Truthy(Get(file.data, "refresh_token"))
    THEN none(file.data["refresh_token"], 1)
    ELSE none(_refresh_token, 1)

\* _save_token: the token file after the save; written says whether the write
\* and rename went through.  Without a configured path nothing is written.
_save_token(token_data, written) ==
    IF token_file /\ written THEN FileOf(token_data) ELSE file

\* A validation that takes the refresh token of the answer alone.
ValidateForgets(token_data, dflt_refresh) ==
    IF "access_token" \notin DOMAIN token_data
    THEN [ok |-> FALSE, exc |-> "KeyError", msg |-> "access_token",
          access_token |-> None, refresh_token |-> None, user_id |-> NoneId]
    ELSE LET u == _extract_user_id(token_data["access_token"]) IN
         IF u.raised
         THEN [ok |-> FALSE, exc |-> "OIDCAuthenticationError", msg |-> u.msg,
               access_token |-> None, refresh_token |-> None, user_id |-> NoneId]
         ELSE [ok |-> TRUE, exc |-> "", msg |-> "",
               access_token |-> token_data["access_token"],
               refresh_token |-> Get(token_data, "refresh_token"),
               user_id |-> u.value]

\* The validation that precedes the commit in refresh_token (lines 296-301)
\* and device_flow_auth (lines 449-452): the new triple, or what was raised.
Validate(token_data, dflt_refresh) ==
    IF "access_token" \notin DOMAIN token_data
    THEN [ok |-> FALSE, exc |-> "KeyError", msg |-> "access_token",
          access_token |-> None, refresh_token |-> None, user_id |-> NoneId]
    ELSE LET u == _extract_user_id(token_data["access_token"]) IN
         IF u.raised
         THEN [ok |-> FALSE, exc |-> "OIDCAuthenticationError", msg |-> u.msg,
               access_token |-> None, refresh_token |-> None, user_id |-> NoneId]
         ELSE [ok |-> TRUE, exc |-> "", msg |-> "",
               access_token |-> token_data["access_token"],
               refresh_token |-> GetOr(token_data, "refresh_token", dflt_refresh),
               user_id |-> u.value]

\* A method hands its result to its caller: a public call is done, a call
\* made by ensure_authenticated resumes it.  c is the call's record so far.
RtExit(r, c) ==
    /\ ret' = r
    /\ cnt' = [c EXCEPT !.rt_ret = r]
    /\ pc' = IF op = "refresh_token" THEN "done" ELSE "ea_refreshed"

DfExit(r, c) ==
    /\ ret' = r
    /\ cnt' = [c EXCEPT !.df_ret = r]
    /\ pc' = IF op = "device_flow_auth" THEN "done" ELSE "ea_deviced"

StartCall(name) ==
    /\ op = "idle"
    /\ calls < MaxCalls
    /\ calls' = calls + 1
    /\ op' = name
    /\ local' = NoLocal
    /\ pre' = [pre EXCEPT !.call = Snap]
    /\ UNCHANGED <<just_ensured, disk, gql>>

-----------------------------------------------------------------------------
(* ensure_authenticated, lines 518-591. *)

\* The validity test of lines 536-537 taken the wrong way round.
AlreadyAuthenticatedInverted ==
    /\ Truthy(_access_token)
    /\ ~_check_token_expiry([access_token |-> _access_token,
                             refresh_token |-> _refresh_token], now).is_valid

\* Lines 531-537: a token is held and _check_token_expiry finds it valid.
AlreadyAuthenticated ==
    /\ Truthy(_access_token)
    /\ _check_token_expiry([access_token |-> _access_token,
                            refresh_token |-> _refresh_token], now).is_valid

\* Lines 528-542: the call, and the return when already authenticated.
ensure_authenticated_call ==
    /\ StartCall("ensure_authenticated")
    /\ cnt' = NoCnt
    /\ IF AlreadyAuthenticated
       THEN pc' = "done" /\ ret' = Return("True")
       ELSE pc' = "ea_get_client" /\ ret' = NoRet
    /\ UNCHANGED <<_access_token, _refresh_token, _user_id, _client, _metadata,
                   token_file, file, now>>

\* Line 545: await self._get_client(); what it raises is not caught.
ensure_authenticated_get_client ==
    /\ pc = "ea_get_client"
    /\ \E resp \in DiscoveryResponses :
         LET g == _get_client(resp) IN
         /\ _client' = g.client
         /\ _metadata' = g.metadata
         /\ cnt' = [cnt EXCEPT !.discovery = @ + g.sent]
         /\ IF g.raised
            THEN /\ pc' = "done"
                 /\ ret' = Raise(g.exc, "discovery")
            ELSE pc' = "ea_check_file" /\ ret' = ret
    /\ UNCHANGED <<_access_token, _refresh_token, _user_id, token_file, file, now,
                   op, local, pre, calls, just_ensured, disk, gql>>

\* Lines 549-559: the triple after the token file was checked and, when it
\* holds a valid token, adopted; done says the call returns True here.
AdoptTokenFile(r) ==
    IF r.found
    THEN LET access_token == r.token_data["access_token"]
             u == _extract_user_id(access_token)
         IN [done |-> ~u.raised,
             access_token |-> IF u.raised THEN None ELSE access_token,
             refresh_token |-> Get(r.token_data, "refresh_token"),
             user_id |-> IF u.raised THEN _user_id ELSE u.value]
    ELSE [done |-> FALSE, access_token |-> _access_token,
          refresh_token |-> r.refresh_token, user_id |-> _user_id]

\* Lines 547-562 and 581: check the token file, then return, refresh or
\* start the device flow.
ensure_authenticated_check_file ==
    /\ pc = "ea_check_file"
    /\ LET r == check_token_file(now)
           a == AdoptTokenFile(r)
       IN /\ _access_token' = a.access_token
          /\ _refresh_token' = a.refresh_token
          /\ _user_id' = a.user_id
          /\ cnt' = [cnt EXCEPT !.file_read = @ + r.read]
          /\ IF a.done THEN pc' = "done" /\ ret' = Return("True")
             ELSE IF Truthy(a.refresh_token) THEN pc' = "rt_entry" /\ ret' = ret
             ELSE pc' = "df_entry" /\ ret' = ret
    /\ UNCHANGED <<_client, _metadata, token_file, file, now, op, local, pre, calls,
                   just_ensured, disk, gql>>

Stay(next, r) ==
    [next |-> next, ret |-> r, access_token |-> _access_token,
     refresh_token |-> _refresh_token, user_id |-> _user_id]

\* An ensure_authenticated that gives up when the refresh fails.
AfterRefreshGivesUp(r) ==
    IF r.value = "token_data"
    THEN [next |-> "done", ret |-> Return("True"),
          access_token |-> r.data["access_token"],
          refresh_token |-> GetOr(r.data, "refresh_token", _refresh_token),
          user_id |-> _extract_user_id(r.data["access_token"]).value]
    ELSE Stay("done", Return("False"))

\* An ensure_authenticated that starts the device flow whatever the refresh gave.
AfterRefreshIgnores(r) == Stay("df_entry", NoRet)

\* Lines 565-581: what ensure_authenticated does with r, the result of
\* refresh_token: return True holding the refreshed token, or go on to the
\* device flow.
AfterRefresh(r) ==
    IF r.value = "token_data"
    THEN LET u == _extract_user_id(r.data["access_token"]) IN
         IF u.raised
         THEN [next |-> "df_entry", ret |-> NoRet, access_token |-> None,
               refresh_token |-> GetOr(r.data, "refresh_token", _refresh_token),
               user_id |-> _user_id]
         ELSE [next |-> "done", ret |-> Return("True"),
               access_token |-> r.data["access_token"],
               refresh_token |-> GetOr(r.data, "refresh_token", _refresh_token),
               user_id |-> u.value]
    ELSE Stay("df_entry", NoRet)

ensure_authenticated_refreshed ==
    /\ pc = "ea_refreshed"
    /\ LET a == AfterRefresh(ret) IN
       /\ _access_token' = a.access_token
       /\ _refresh_token' = a.refresh_token
       /\ _user_id' = a.user_id
       /\ pc' = a.next
       /\ ret' = a.ret
       /\ local' = IF a.next = "done" THEN local ELSE NoLocal
    /\ UNCHANGED <<_client, _metadata, token_file, file, now, op, pre, cnt, calls,
                   just_ensured, disk, gql>>

\* An ensure_authenticated that swallows what the device flow raises.
AfterDeviceFlowSwallows(r) ==
    IF r.value = "token_data" /\ DOMAIN r.data # {}
    THEN [next |-> "done", ret |-> Return("True"),
          access_token |-> r.data["access_token"],
          refresh_token |-> Get(r.data, "refresh_token"),
          user_id |-> _extract_user_id(r.data["access_token"]).value]
    ELSE Stay("done", Return("False"))

\* Lines 582-591: what ensure_authenticated does with r, the outcome of
\* device_flow_auth: what it raised propagates; a record that is truthy is
\* adopted and True returned; anything else gives False.
AfterDeviceFlow(r) ==
    IF r.kind = "raise" THEN Stay("done", r)
    ELSE IF r.value = "token_data" /\ DOMAIN r.data # {}
    THEN LET u == _extract_user_id(r.data["access_token"]) IN
         [next |-> "done",
          ret |-> IF u.raised THEN Raise("OIDCAuthenticationError", u.msg)
                  ELSE Return("True"),
          access_token |-> r.data["access_token"],
          refresh_token |-> Get(r.data, "refresh_token"),
          user_id |-> IF u.raised THEN _user_id ELSE u.value]
    ELSE Stay("done", Return("False"))

ensure_authenticated_deviced ==
    /\ pc = "ea_deviced"
    /\ LET a == AfterDeviceFlow(ret) IN
       /\ _access_token' = a.access_token
       /\ _refresh_token' = a.refresh_token
       /\ _user_id' = a.user_id
       /\ pc' = a.next
       /\ ret' = a.ret
    /\ UNCHANGED <<_client, _metadata, token_file, file, now, op, local, pre, cnt,
                   calls, just_ensured, disk, gql>>

-----------------------------------------------------------------------------
(* refresh_token, lines 268-322. *)

refresh_token_call ==
    /\ StartCall("refresh_token")
    /\ cnt' = NoCnt
    /\ pc' = "rt_entry"
    /\ ret' = NoRet
    /\ UNCHANGED <<_access_token, _refresh_token, _user_id, _client, _metadata,
                   token_file, file, now>>

\* Lines 275-281: no refresh token, no request; else the client is got, and
\* what that raises is caught (lines 320-322).
refresh_token_entry ==
    /\ pc = "rt_entry"
    /\ pre' = [pre EXCEPT !.rt = Snap]
    /\ LET c == Bump("refresh_calls") IN
       IF ~Truthy(_refresh_token)
       THEN /\ RtExit(Return("None"), c)
            /\ UNCHANGED <<_client, _metadata>>
       ELSE \E resp \in DiscoveryResponses :
              LET g == _get_client(resp)
                  c2 == [c EXCEPT !.discovery = @ + g.sent]
              IN /\ _client' = g.client
                 /\ _metadata' = g.metadata
                 /\ IF g.raised THEN RtExit(Return("None"), c2)
                    ELSE pc' = "rt_post" /\ ret' = ret /\ cnt' = c2
    /\ UNCHANGED <<_access_token, _refresh_token, _user_id, token_file, file, now,
                   op, local, calls, just_ensured, disk, gql>>

\* The token endpoint answered 200 with a record whose access token yields an
\* identity.
GoodTokenAnswer(resp) ==
    /\ ~resp.exc
    /\ resp.status = 200
    /\ resp.json
    /\ "access_token" \in DOMAIN resp.body
    /\ ~_extract_user_id(resp.body["access_token"]).raised

Kept ==
    [ok |-> FALSE, access_token |-> _access_token, refresh_token |-> _refresh_token,
     user_id |-> _user_id, token_data |-> EmptyDict]

\* A refresh that assigns the new tokens before it validates the identity.
RefreshOutcomeCommitFirst(resp, t) ==
    LET td == _normalize_token_data(resp.body, t)
        v == Validate(td, _refresh_token)
    IN IF resp.exc \/ resp.status # 200 \/ ~resp.json THEN Kept
       ELSE IF "access_token" \notin DOMAIN td THEN Kept
       ELSE [ok |-> v.ok, access_token |-> td["access_token"],
             refresh_token |-> GetOr(td, "refresh_token", _refresh_token),
             user_id |-> IF v.ok THEN v.user_id ELSE _user_id,
             token_data |-> IF v.ok THEN td ELSE EmptyDict]

\* Lines 293-306 and 312-322: what refresh_token makes of the token endpoint's
\* answer: the triple it leaves in memory and, when ok, the record it goes on
\* to save and return.  Everything raised on the way is caught.
RefreshOutcome(resp, t) ==
    LET td == _normalize_token_data(resp.body, t)
        v == Validate(td, _refresh_token)
    IN IF resp.exc \/ resp.status # 200 \/ ~resp.json THEN Kept
       ELSE IF ~v.ok THEN Kept
       ELSE [ok |-> TRUE, access_token |-> v.access_token,
             refresh_token |-> v.refresh_token, user_id |-> v.user_id,
             token_data |-> td]

\* Lines 283-322: the refresh request and its answer.
refresh_token_post ==
    /\ pc = "rt_post"
    /\ \E resp \in RefreshResponses :
         LET o == RefreshOutcome(resp, now)
             c == [cnt EXCEPT !.refresh = @ + 1,
                              !.refresh_good = GoodTokenAnswer(resp)]
         IN /\ local' = [local EXCEPT !.response = resp, !.token_data = o.token_data]
            /\ _access_token' = o.access_token
            /\ _refresh_token' = o.refresh_token
            /\ _user_id' = o.user_id
            /\ IF o.ok
               THEN pc' = "rt_save" /\ ret' = ret /\ cnt' = c
               ELSE RtExit(Return("None"), c)
    /\ UNCHANGED <<_client, _metadata, token_file, file, now, op, pre, calls,
                   just_ensured, disk, gql>>

\* Lines 308-311: save the token, return it.
refresh_token_save ==
    /\ pc = "rt_save"
    /\ \E written \in BOOLEAN :
         file' = _save_token(local.token_data, written)
    /\ RtExit(ReturnData(local.token_data), Bump("save"))
    /\ UNCHANGED <<_access_token, _refresh_token, _user_id, _client, _metadata,
                   token_file, now, op, local, pre, calls, just_ensured, disk, gql>>

-----------------------------------------------------------------------------
(* device_flow_auth, lines 365-516. *)

\* A device flow that lets the exceptions of its requests through as they are.
NotWrapped == Raise("Exception", "Device flow authentication error")

\* Every exception that is no OIDCAuthenticationError is wrapped (lines 513-516).
Wrapped == Raise("OIDCAuthenticationError", "Device flow authentication error")

device_flow_auth_call ==
    /\ StartCall("device_flow_auth")
    /\ cnt' = NoCnt
    /\ pc' = "df_entry"
    /\ ret' = NoRet
    /\ UNCHANGED <<_access_token, _refresh_token, _user_id, _client, _metadata,
                   token_file, file, now>>

\* Lines 374-381: get the client, read the device authorization endpoint.
device_flow_auth_entry ==
    /\ pc = "df_entry"
    /\ pre' = [pre EXCEPT !.df = Snap]
    /\ \E resp \in DiscoveryResponses :
         LET g == _get_client(resp)
             c == [cnt EXCEPT !.discovery = @ + g.sent, !.device_calls = @ + 1]
         IN /\ _client' = g.client
            /\ _metadata' = g.metadata
            /\ IF g.raised \/ "device_authorization_endpoint" \notin DOMAIN g.metadata
               THEN DfExit(Wrapped, c)
               ELSE pc' = "df_request" /\ ret' = ret /\ cnt' = c
    /\ UNCHANGED <<_access_token, _refresh_token, _user_id, token_file, file, now,
                   op, local, calls, just_ensured, disk, gql>>

\* Lines 383-425: the device-code request; start_time is taken after it.
device_flow_auth_request(responses) ==
    /\ pc = "df_request"
    /\ \E resp \in responses :
         LET c == Bump("device_code") IN
         IF \/ resp.exc
            \/ resp.status >= 400
            \/ ~resp.json
            \/ "device_code" \notin DOMAIN resp.body
         THEN DfExit(Wrapped, c) /\ local' = local
         ELSE /\ local' = [local EXCEPT
                             !.device_data = resp.body,
                             !.interval = GetOr(resp.body, "interval", DefaultInterval),
                             !.start_time = now]
              /\ pc' = "df_loop"
              /\ ret' = ret
              /\ cnt' = c
    /\ UNCHANGED <<_access_token, _refresh_token, _user_id, _client, _metadata,
                   token_file, file, now, op, pre, calls, just_ensured, disk, gql>>

\* Lines 427-433: the check of the time ceiling, then the sleep.
device_flow_auth_loop ==
    /\ pc = "df_loop"
    /\ IF now - local.start_time > max_wait_time
       THEN /\ DfExit(Raise("OIDCAuthenticationError", "Device flow timed out"), cnt)
            /\ now' = now
       ELSE /\ now' = now + local.interval
            /\ pc' = "df_poll"
            /\ UNCHANGED <<ret, cnt>>
    /\ UNCHANGED <<_access_token, _refresh_token, _user_id, _client, _metadata,
                   token_file, file, op, local, pre, calls, just_ensured,
                   disk, gql>>

\* Lines 466-478: the error code of an answer that is not a 200.
PollError(resp) ==
    IF resp.json THEN GetOr(resp.body, "error", "unknown_error") ELSE "unknown_error"

\* Lines 469 and 478: its description.
PollErrorDescription(resp) ==
    IF resp.json THEN GetOr(resp.body, "error_description", "") ELSE resp.text

PollRaise(r) ==
    [kind |-> "raise", r |-> r, access_token |-> _access_token,
     refresh_token |-> _refresh_token, user_id |-> _user_id]

PollGoOn(kind) ==
    [kind |-> kind, r |-> NoRet, access_token |-> _access_token,
     refresh_token |-> _refresh_token, user_id |-> _user_id]

AuthenticationFailed(resp) ==
    [Raise("OIDCAuthenticationError", "Authentication failed")
        EXCEPT !.error = PollError(resp),
               !.description = PollErrorDescription(resp)]

\* A poll loop that gives up on authorization_pending.
PollErrorOutcomeNoPending(resp) ==
    IF PollError(resp) = "slow_down" THEN PollGoOn("slow_down")
    ELSE IF PollError(resp) = "expired_token"
    THEN PollRaise(Raise("OIDCAuthenticationError", "Device code expired"))
    ELSE IF resp.status = 401 /\ PollError(resp) # "authorization_pending"
    THEN PollGoOn("continue")
    ELSE PollRaise(AuthenticationFailed(resp))

\* A poll loop that looks at the status 401 before the error code.
PollErrorOutcomeStatusFirst(resp) ==
    IF resp.status = 401 THEN PollGoOn("continue")
    ELSE IF PollError(resp) = "authorization_pending" THEN PollGoOn("continue")
    ELSE IF PollError(resp) = "slow_down" THEN PollGoOn("slow_down")
    ELSE IF PollError(resp) = "expired_token"
    THEN PollRaise(Raise("OIDCAuthenticationError", "Device code expired"))
    ELSE PollRaise(AuthenticationFailed(resp))

\* A poll loop that keeps its interval on slow_down.
PollErrorOutcomeSameInterval(resp) ==
    IF PollError(resp) \in {"authorization_pending", "slow_down"}
    THEN PollGoOn("continue")
    ELSE IF PollError(resp) = "expired_token"
    THEN PollRaise(Raise("OIDCAuthenticationError", "Device code expired"))
    ELSE IF resp.status = 401 THEN PollGoOn("continue")
    ELSE PollRaise(AuthenticationFailed(resp))

\* A poll loop that fails on a 401 it does not know.
PollErrorOutcomeStrict401(resp) ==
    IF PollError(resp) = "authorization_pending" THEN PollGoOn("continue")
    ELSE IF PollError(resp) = "slow_down" THEN PollGoOn("slow_down")
    ELSE IF PollError(resp) = "expired_token"
    THEN PollRaise(Raise("OIDCAuthenticationError", "Device code expired"))
    ELSE PollRaise(AuthenticationFailed(resp))

\* A poll loop whose failure does not say what the server answered.
PollErrorOutcomeAnonymous(resp) ==
    IF PollError(resp) = "authorization_pending" THEN PollGoOn("continue")
    ELSE IF PollError(resp) = "slow_down" THEN PollGoOn("slow_down")
    ELSE IF PollError(resp) = "expired_token"
    THEN PollRaise(Raise("OIDCAuthenticationError", "Device code expired"))
    ELSE IF resp.status = 401 THEN PollGoOn("continue")
    ELSE PollRaise(Raise("OIDCAuthenticationError", "Authentication failed"))

\* Lines 464-509: what an answer that is not a 200 leads to.
PollErrorOutcome(resp) ==
    IF PollError(resp) = "authorization_pending" THEN PollGoOn("continue")
    ELSE IF PollError(resp) = "slow_down" THEN PollGoOn("slow_down")
    ELSE IF PollError(resp) = "expired_token"
    THEN PollRaise(Raise("OIDCAuthenticationError", "Device code expired"))
    ELSE IF resp.status = 401 THEN PollGoOn("continue")
    ELSE PollRaise(AuthenticationFailed(resp))

\* A poll that assigns the new tokens before it validates the identity.
PollOutcomeCommitFirst(resp, t) ==
    LET td == _normalize_token_data(resp.body, t)
        v == Validate(td, None)
    IN IF resp.exc THEN PollRaise(Wrapped)
       ELSE IF resp.status = 200
       THEN IF ~resp.json THEN PollRaise(Wrapped)
            ELSE IF "access_token" \notin DOMAIN td THEN PollRaise(Wrapped)
            ELSE [kind |-> IF v.ok THEN "token" ELSE "raise",
                  r |-> IF v.ok THEN NoRet ELSE Raise(v.exc, v.msg),
                  access_token |-> td["access_token"],
                  refresh_token |-> Get(td, "refresh_token"),
                  user_id |-> IF v.ok THEN v.user_id ELSE _user_id]
       ELSE PollErrorOutcome(resp)

\* Lines 446-509: what one poll answer leads to: "token" with the triple to
\* hold, "raise" with the exception, "continue", or "slow_down".
PollOutcome(resp, t) ==
    LET td == _normalize_token_data(resp.body, t)
        v == Validate(td, None)
    IN IF resp.exc THEN PollRaise(Wrapped)
       ELSE IF resp.status = 200
       THEN IF ~resp.json THEN PollRaise(Wrapped)
            ELSE IF v.ok
            THEN [kind |-> "token", r |-> NoRet, access_token |-> v.access_token,
                  refresh_token |-> v.refresh_token, user_id |-> v.user_id]
            ELSE IF v.exc = "OIDCAuthenticationError"
            THEN PollRaise(Raise(v.exc, v.msg))
            ELSE PollRaise(Wrapped)
       ELSE PollErrorOutcome(resp)

\* A poll answer that is not a 200 and carries the error code e.
ErrorAnswer(resp, e) == ~resp.exc /\ resp.status # 200 /\ PollError(resp) = e

\* Lines 435-509: one poll and its answer.  In the specifications that explore
\* the answers in breadth, at most `budget` answers keep one flow polling; the
\* time ceiling allows more of them than NoPollBudget in no device flow.
NoPollBudget == max_wait_time + 1

device_flow_auth_poll(budget) ==
    /\ pc = "df_poll"
    /\ \E resp \in PollResponses :
         LET o == PollOutcome(resp, now)
             c == [cnt EXCEPT
                     !.poll = @ + 1,
                     !.pending =
                         IF ErrorAnswer(resp, "authorization_pending") THEN @ + 1 ELSE @,
                     !.slow_down =
                         IF ErrorAnswer(resp, "slow_down") THEN @ + 1 ELSE @]
         IN /\ o.kind \in {"continue", "slow_down"} => cnt.poll < budget
            /\ _access_token' = o.access_token
            /\ _refresh_token' = o.refresh_token
            /\ _user_id' = o.user_id
            /\ IF o.kind = "token"
               THEN /\ local' = [local EXCEPT
                                   !.response = resp,
                                   !.token_data = _normalize_token_data(resp.body, now)]
                    /\ pc' = "df_save"
                    /\ ret' = ret
                    /\ cnt' = c
               ELSE IF o.kind = "raise"
               THEN /\ DfExit(o.r, c)
                    /\ local' = [local EXCEPT !.response = resp]
               ELSE /\ local' = [local EXCEPT
                                   !.response = resp,
                                   !.interval = IF o.kind = "slow_down"
                                                THEN @ + SlowDownStep ELSE @]
                    /\ pc' = "df_loop"
                    /\ ret' = ret
                    /\ cnt' = c
    /\ UNCHANGED <<_client, _metadata, token_file, file, now, op, pre, calls,
                   just_ensured, disk, gql>>

\* Lines 459-462: save the token, return it.
device_flow_auth_save ==
    /\ pc = "df_save"
    /\ \E written \in BOOLEAN :
         file' = _save_token(local.token_data, written)
    /\ DfExit(ReturnData(local.token_data), Bump("save"))
    /\ UNCHANGED <<_access_token, _refresh_token, _user_id, _client, _metadata,
                   token_file, now, op, local, pre, calls, just_ensured, disk, gql>>

-----------------------------------------------------------------------------
(* check_token_file as a public call, the caller reading the result, and     *)
(* time passing between calls.                                               *)

check_token_file_call ==
    /\ StartCall("check_token_file")
    /\ LET r == check_token_file(now) IN
       /\ _refresh_token' = r.refresh_token
       /\ cnt' = [NoCnt EXCEPT !.file_read = r.read]
       /\ ret' = IF r.found THEN ReturnData(r.token_data) ELSE Return("None")
    /\ pc' = "done"
    /\ UNCHANGED <<_access_token, _user_id, _client, _metadata, token_file, file,
                   now>>

\* The public call is over: its caller has the result, its frames are gone.
Finish ==
    /\ pc = "done"
    /\ op' = "idle"
    /\ pc' = "idle"
    /\ ret' = NoRet
    /\ local' = NoLocal
    /\ pre' = [call |-> NoSnap, rt |-> NoSnap, df |-> NoSnap]
    /\ cnt' = NoCnt
    /\ just_ensured' = (op = "ensure_authenticated" /\ ret = Return("True"))
    /\ UNCHANGED <<_access_token, _refresh_token, _user_id, _client, _metadata,
                   token_file, file, now, calls, disk, gql>>

\* Time passes while no call runs.
Tick ==
    /\ op = "idle"
    /\ now + TickStep <= Now0 + MaxIdle * TickStep
    /\ now' = now + TickStep
    /\ just_ensured' = FALSE
    /\ UNCHANGED <<_access_token, _refresh_token, _user_id, _client, _metadata,
                   token_file, file, op, pc, ret, local, pre, cnt, calls,
                   disk, gql>>

Next ==
    \/ ensure_authenticated_call
    \/ ensure_authenticated_get_client
    \/ ensure_authenticated_check_file
    \/ ensure_authenticated_refreshed
    \/ ensure_authenticated_deviced
    \/ refresh_token_call
    \/ refresh_token_entry
    \/ refresh_token_post
    \/ refresh_token_save
    \/ device_flow_auth_call
    \/ device_flow_auth_entry
    \/ device_flow_auth_request(DeviceCodeResponses)
    \/ device_flow_auth_loop
    \/ device_flow_auth_poll(MaxPolls)
    \/ device_flow_auth_save
    \/ check_token_file_call
    \/ Finish
    \/ Tick

Spec == Init /\ [][Next]_vars

-----------------------------------------------------------------------------
(* One device flow in detail: device_flow_auth is the last public call on a  *)
(* manager that is fresh, or that has adopted the token file in an earlier   *)
(* ensure_authenticated.                                                     *)

AdoptedFile == FileOf([access_token |-> "Tlong", refresh_token |-> "R1"])

InitFlow ==
    /\ \/ /\ _access_token = None
          /\ _refresh_token = None
          /\ _user_id = NoneId
          /\ _client = FALSE
          /\ _metadata = EmptyDict
          /\ token_file \in BOOLEAN
          /\ file = NoFile
       \/ /\ _access_token = "Tlong"
          /\ _refresh_token = "R1"
          /\ _user_id = _extract_user_id("Tlong").value
          /\ _client = TRUE
          /\ _metadata = MdFull
          /\ token_file = TRUE
          /\ file = AdoptedFile
    /\ now = Now0
    /\ op = "idle"
    /\ pc = "idle"
    /\ ret = NoRet
    /\ local = NoLocal
    /\ pre = [call |-> NoSnap, rt |-> NoSnap, df |-> NoSnap]
    /\ cnt = NoCnt
    /\ calls = MaxCalls - 1
    /\ just_ensured = FALSE
    /\ disk = NoDisk
    /\ gql = NoGql

NextFlow ==
    \/ device_flow_auth_call
    \/ device_flow_auth_entry
    \/ device_flow_auth_request(FlowDeviceCodeResponses)
    \/ device_flow_auth_loop
    \/ device_flow_auth_poll(MaxPolls)
    \/ device_flow_auth_save
    \/ Finish

SpecFlow == InitFlow /\ [][NextFlow]_vars

-----------------------------------------------------------------------------
(* One device flow followed to its end: the answers that keep it polling are *)
(* not bounded, so that only an answer that ends the flow, or the time       *)
(* ceiling, stops it.  The coroutine is scheduled until it returns or        *)
(* raises, and each request ends (with an answer, or with the exception of   *)
(* the HTTP timeout): each step of the flow is weakly fair.  Nothing makes   *)
(* the caller start the flow.                                                *)

LiveDeviceCodeResponses ==
    { NetError,
      Http(200, [device_code |-> "DC", user_code |-> "UC",
                 verification_uri |-> "uri", interval |-> LiveInterval]),
      Http(200, [device_code |-> "DC", verification_uri_complete |-> "uri",
                 interval |-> max_wait_time + 1]) }

NextLive ==
    \/ device_flow_auth_call
    \/ device_flow_auth_entry
    \/ device_flow_auth_request(LiveDeviceCodeResponses)
    \/ device_flow_auth_loop
    \/ device_flow_auth_poll(NoPollBudget)
    \/ device_flow_auth_save
    \/ Finish

SpecLive ==
    /\ InitFlow
    /\ [][NextLive]_vars
    /\ WF_vars(device_flow_auth_entry)
    /\ WF_vars(device_flow_auth_request(LiveDeviceCodeResponses))
    /\ WF_vars(device_flow_auth_loop)
    /\ WF_vars(device_flow_auth_poll(NoPollBudget))
    /\ WF_vars(device_flow_auth_save)

-----------------------------------------------------------------------------
(* _save_token step by step, lines 324-363: each system call is one step of  *)
(* the process that makes it, and may fail.  Process 1 is the manager of     *)
(* this model, saving in refresh_token (line 311) or called directly; the    *)
(* other processes save a record of their own to the same path.              *)

Failed(d, w) == [d EXCEPT !.proc[w].pc = "cleanup", !.proc[w].failed = TRUE]

\* Lines 330-345: without a path nothing is written; the parent directory is
\* made, and when that fails nothing is written either.
SaveBegin(d, w, token_data, configured, ok) ==
    LET p == [IdleProc EXCEPT !.record = token_data]
    IN IF ~configured THEN [d EXCEPT !.proc[w] = [p EXCEPT !.pc = "returned"]]
       ELSE IF ~ok
       THEN [d EXCEPT !.proc[w] = [p EXCEPT !.pc = "returned", !.failed = TRUE]]
       ELSE [d EXCEPT !.proc[w] =
                          [p EXCEPT !.pc = "open", !.text = JsonDump(token_data)]]

\* An open that writes into the token file itself.
SaveOpenInPlace(d, w, ok) ==
    IF ~(ok /\ d.searchable) THEN Failed(d, w)
    ELSE IF "target" \in DOMAIN d.path
    THEN [d EXCEPT !.data[d.path["target"]] = <<>>,
                   !.proc[w].fd = d.path["target"],
                   !.proc[w].pc = "write"]
    ELSE [d EXCEPT !.path = SetKey(@, "target", Len(d.data) + 1),
                   !.data = Append(@, <<>>),
                   !.durable = Append(@, <<>>),
                   !.proc[w].fd = Len(d.data) + 1,
                   !.proc[w].pc = "write"]

\* Lines 347-349: open(temp_file, "w") makes the temporary file, or cuts the
\* file that is at its path to nothing.  The path is the same for every
\* process: token_file.with_suffix(".tmp").
SaveOpen(d, w, ok) ==
    IF ~(ok /\ d.searchable) THEN Failed(d, w)
    ELSE IF "temp" \in DOMAIN d.path
    THEN [d EXCEPT !.data[d.path["temp"]] = <<>>,
                   !.proc[w].fd = d.path["temp"],
                   !.proc[w].pc = "write"]
    ELSE [d EXCEPT !.path = SetKey(@, "temp", Len(d.data) + 1),
                   !.data = Append(@, <<>>),
                   !.durable = Append(@, <<>>),
                   !.proc[w].fd = Len(d.data) + 1,
                   !.proc[w].pc = "write"]

\* Lines 350-351: json.dump and f.flush hand the text to the file, k chunks
\* with this write.
SaveWrite(d, w, ok, k) ==
    LET p == d.proc[w] IN
    IF ~ok THEN Failed(d, w)
    ELSE [d EXCEPT !.data[p.fd] = WriteAt(@, p.pos, SubSeq(p.text, p.pos + 1, p.pos + k)),
                   !.proc[w].pos = p.pos + k,
                   !.proc[w].pc = IF p.pos + k = Len(p.text) THEN "fsync" ELSE "write"]

\* Line 352: os.fsync; the file is closed as the with block ends.
SaveFsync(d, w, ok) ==
    IF ~ok THEN Failed(d, w)
    ELSE [d EXCEPT !.durable[d.proc[w].fd] = d.data[d.proc[w].fd],
                   !.proc[w].pc = "replace"]

\* Line 355: temp_file.replace(self.token_file), the rename; it raises when
\* nothing is at the temporary path any more.
SaveReplace(d, w, ok) ==
    IF ok /\ "temp" \in DOMAIN d.path
    THEN [d EXCEPT !.path = [target |-> d.path["temp"]], !.proc[w].pc = "returned"]
    ELSE Failed(d, w)

\* Lines 357-363, the handler of a failure: temp_file.exists() and unlink().
\* In a directory the process cannot search, exists() raises PermissionError
\* (pathlib lets the EACCES of stat through), and nothing catches it.  An
\* unlink that fails is passed over.
SaveCleanup(d, w, ok) ==
    IF ~d.searchable THEN [d EXCEPT !.proc[w].pc = "raised"]
    ELSE IF ok /\ "temp" \in DOMAIN d.path
    THEN [d EXCEPT !.path = DelKey(@, "temp"), !.proc[w].pc = "returned"]
    ELSE [d EXCEPT !.proc[w].pc = "returned"]

\* A file that no path names and no process has open is gone.
Named(d, i) ==
    \/ \E n \in DOMAIN d.path : d.path[n] = i
    \/ \E w \in Writers : d.proc[w].pc \in {"write", "fsync"} /\ d.proc[w].fd = i

Reclaimed(d) ==
    [d EXCEPT !.data = [i \in DOMAIN @ |-> IF Named(d, i) THEN @[i] ELSE <<>>],
              !.durable = [i \in DOMAIN @ |-> IF Named(d, i) THEN @[i] ELSE <<>>]]

\* The step of process w that is next in its _save_token.
SaveStep(d, w, ok, k) ==
    Reclaimed(CASE d.proc[w].pc = "open" -> SaveOpen(d, w, ok)
                [] d.proc[w].pc = "write" -> SaveWrite(d, w, ok, k)
                [] d.proc[w].pc = "fsync" -> SaveFsync(d, w, ok)
                [] d.proc[w].pc = "replace" -> SaveReplace(d, w, ok)
                [] d.proc[w].pc = "cleanup" -> SaveCleanup(d, w, ok))

SaveSteps == {"open", "write", "fsync", "replace", "cleanup"}

\* The file object hands its buffer to the file when the buffer is full, and
\* what is left at the flush: a write takes BufferChunks chunks, or the rest.
WriteSize(d, w) ==
    IF Len(d.proc[w].text) - d.proc[w].pos > BufferChunks
    THEN BufferChunks ELSE Len(d.proc[w].text) - d.proc[w].pos

\* The records _save_token is called with directly.
SaveRecords == {b \in TokenBodies : "access_token" \in DOMAIN b}

\* The record another process saves.
OtherRecord == [access_token |-> "Tgood", refresh_token |-> "R3"]

\* The manager is in _save_token: called directly, or from refresh_token.
InSave == pc \in {"st_save", "rt_save"}

\* A direct call of _save_token, as the first call of the behaviour.
_save_token_call ==
    /\ calls = MaxCalls - 2
    /\ StartCall("_save_token")
    /\ cnt' = NoCnt
    /\ pc' = "st_save"
    /\ ret' = NoRet
    /\ UNCHANGED <<_access_token, _refresh_token, _user_id, _client, _metadata,
                   token_file, file, now>>

_save_token_begin ==
    /\ InSave
    /\ disk.proc[1].pc = "idle"
    /\ \E token_data \in IF pc = "st_save" THEN SaveRecords ELSE {local.token_data},
          ok \in BOOLEAN :
         disk' = SaveBegin(disk, 1, token_data, token_file, ok)
    /\ file' = TokenFile(disk')
    /\ UNCHANGED <<_access_token, _refresh_token, _user_id, _client, _metadata,
                   token_file, now, op, pc, ret, local, pre, cnt, calls,
                   just_ensured, gql>>

_save_token_step ==
    /\ InSave
    /\ disk.proc[1].pc \in SaveSteps
    /\ \E ok \in BOOLEAN :
         disk' = SaveStep(disk, 1, ok, WriteSize(disk, 1))
    /\ file' = TokenFile(disk')
    /\ UNCHANGED <<_access_token, _refresh_token, _user_id, _client, _metadata,
                   token_file, now, op, pc, ret, local, pre, cnt, calls,
                   just_ensured, gql>>

\* _save_token is over.  What it raised goes to its caller: refresh_token
\* catches it and returns None (lines 320-322).
_save_token_return ==
    /\ InSave
    /\ disk.proc[1].pc \in {"returned", "raised"}
    /\ disk' = [disk EXCEPT !.proc[1] =
                                [IdleProc EXCEPT !.record = disk.proc[1].record,
                                                 !.failed = disk.proc[1].failed]]
    /\ IF pc = "st_save"
       THEN /\ pc' = "done"
            /\ ret' = IF disk.proc[1].pc = "raised"
                      THEN Raise("PermissionError", "") ELSE Return("None")
            /\ cnt' = Bump("save")
       ELSE RtExit(IF disk.proc[1].pc = "raised"
                   THEN Return("None") ELSE ReturnData(local.token_data),
                   Bump("save"))
    /\ UNCHANGED <<_access_token, _refresh_token, _user_id, _client, _metadata,
                   token_file, file, now, op, local, pre, calls, just_ensured, gql>>

\* Another process in its _save_token, while the manager is in its own or
\* has just left it.  Each of them saves once, and its system calls fail
\* only where another process has made them fail.
concurrent_save ==
    /\ InSave \/ (pc = "done" /\ cnt.save > 0)
    /\ token_file
    /\ \E w \in Writers \ {1} :
         \/ /\ disk.proc[w].pc = "idle"
            /\ disk.proc[w].record = EmptyDict
            /\ disk' = SaveBegin(disk, w, OtherRecord, TRUE, TRUE)
         \/ /\ disk.proc[w].pc \in SaveSteps
            /\ disk' = SaveStep(disk, w, TRUE, WriteSize(disk, w))
    /\ file' = TokenFile(disk')
    /\ UNCHANGED <<_access_token, _refresh_token, _user_id, _client, _metadata,
                   token_file, now, op, pc, ret, local, pre, cnt, calls,
                   just_ensured, gql>>

\* check_token_file; in a directory the process cannot search, the exists()
\* of line 242 raises PermissionError.
check_token_file_load ==
    IF disk.searchable THEN check_token_file_call
    ELSE /\ StartCall("check_token_file")
         /\ cnt' = NoCnt
         /\ ret' = IF token_file THEN Raise("PermissionError", "") ELSE Return("None")
         /\ pc' = "done"
         /\ UNCHANGED <<_access_token, _refresh_token, _user_id, _client, _metadata,
                        token_file, file, now>>

\* A manager that holds the tokens of an earlier call, beside the token file
\* as that call left it, or beside none.
InitSave ==
    /\ _access_token = "Tlong"
    /\ _refresh_token = "R1"
    /\ _user_id = _extract_user_id("Tlong").value
    /\ _client = TRUE
    /\ _metadata = MdFull
    /\ token_file \in BOOLEAN
    /\ disk \in IF token_file
                THEN {NoDisk, DiskOf(JsonDump(AdoptedFile.data)),
                      [NoDisk EXCEPT !.searchable = FALSE]}
                ELSE {NoDisk}
    /\ file = TokenFile(disk)
    /\ gql = NoGql
    /\ now = Now0
    /\ op = "idle"
    /\ pc = "idle"
    /\ ret = NoRet
    /\ local = NoLocal
    /\ pre = [call |-> NoSnap, rt |-> NoSnap, df |-> NoSnap]
    /\ cnt = NoCnt
    /\ calls = MaxCalls - 2
    /\ just_ensured = FALSE

\* refresh_token as the first call of the behaviour.
first_refresh_token_call == calls = MaxCalls - 2 /\ refresh_token_call

\* One call that saves, and calls of check_token_file before or after it.
NextSave ==
    \/ _save_token_call
    \/ first_refresh_token_call
    \/ refresh_token_entry
    \/ refresh_token_post
    \/ _save_token_begin
    \/ _save_token_step
    \/ _save_token_return
    \/ concurrent_save
    \/ check_token_file_load
    \/ Finish

SpecSave == InitSave /\ [][NextSave]_vars

-----------------------------------------------------------------------------
(* _check_token_expiry and _extract_user_id as functions of their inputs:
   the token record, what pyjwt.decode makes of its access token, and the
   clock. *)

\* A dict with the key k bound to one of vals, or without it.
OptKey(k, vals) == {EmptyDict} \cup {k :> v : v \in vals}

\* The exp claim: absent, zero, a time around the clock, or no number.
ExpClaims ==
    OptKey("exp", {0, Now0 - 100, Now0 - 1, Now0, Now0 + 1,
                   Now0 + ExpiryBuffer - 1, Now0 + ExpiryBuffer,
                   Now0 + ExpiryBuffer + 1, Now0 + 500})
    \cup OptKey("exp_nonnumeric", {None, "", "soon"})

\* The identity claims, each absent, empty or set; an email with and without
\* an "@".
IdentityClaims ==
    {e @@ p @@ u :
        e \in OptKey("email", {<<>>, <<"a">>, <<"a", "@", "x">>, <<"@", "x">>}),
        p \in OptKey("preferred_username", {<<>>, <<"p">>}),
        u \in OptKey("sub", {<<>>, <<"s">>})}

PureClaims == {x @@ i : x \in ExpClaims, i \in IdentityClaims}

\* The token record and what pyjwt.decode does with its access token.
\* "Tbad" has not the three parts of a JWT, the payload of "Tnonjson" is no
\* JSON: pyjwt.decode raises for both.
PureTokens ==
    {[token_data |-> EmptyDict, jwt |-> EmptyDict]}
    \cup {[token_data |-> [access_token |-> t], jwt |-> EmptyDict] :
             t \in {"", "Tbad", "Tnonjson"}}
    \cup {[token_data |-> [access_token |-> "T"], jwt |-> "T" :> c] :
             c \in PureClaims}

InitPure ==
    /\ _access_token = None
    /\ _refresh_token = None
    /\ _user_id = NoneId
    /\ _client = FALSE
    /\ _metadata = EmptyDict
    /\ token_file = FALSE
    /\ file = NoFile
    /\ now = Now0
    /\ op = "idle"
    /\ pc = "idle"
    /\ ret = NoRet
    /\ local \in {[token_data |-> i.token_data, jwt |-> i.jwt, clock |-> c] :
                     i \in PureTokens,
                     c \in {Now0 * TicksPerSecond + k : k \in 0..(TicksPerSecond - 1)}}
    /\ pre = [call |-> NoSnap, rt |-> NoSnap, df |-> NoSnap]
    /\ cnt = NoCnt
    /\ calls = 0
    /\ just_ensured = FALSE
    /\ disk = NoDisk
    /\ gql = NoGql

\* _check_token_expiry(token_data) returns its pair.
_check_token_expiry_call ==
    /\ op = "idle"
    /\ op' = "_check_token_expiry"
    /\ pc' = "done"
    /\ ret' = [Return("pair") EXCEPT
                  !.data = _check_token_expiry_of(local.jwt, local.token_data,
                                                  local.clock)]
    /\ UNCHANGED <<_access_token, _refresh_token, _user_id, _client, _metadata,
                   token_file, file, now, local, pre, cnt, calls, just_ensured,
                   disk, gql>>

\* _extract_user_id(access_token) returns the identity or raises.
_extract_user_id_call ==
    /\ op = "idle"
    /\ "access_token" \in DOMAIN local.token_data
    /\ op' = "_extract_user_id"
    /\ pc' = "done"
    /\ ret' = LET r == _extract_user_id_of(local.jwt, local.token_data["access_token"])
              IN IF r.raised THEN Raise("OIDCAuthenticationError", r.msg)
                 ELSE [Return("user_id") EXCEPT !.data = r.value]
    /\ UNCHANGED <<_access_token, _refresh_token, _user_id, _client, _metadata,
                   token_file, file, now, local, pre, cnt, calls, just_ensured,
                   disk, gql>>

\* The caller goes on with the same token.
PureReturn ==
    /\ pc = "done"
    /\ op' = "idle"
    /\ pc' = "idle"
    /\ ret' = NoRet
    /\ UNCHANGED <<_access_token, _refresh_token, _user_id, _client, _metadata,
                   token_file, file, now, local, pre, cnt, calls, just_ensured,
                   disk, gql>>

NextPure ==
    \/ _check_token_expiry_call
    \/ _extract_user_id_call
    \/ PureReturn

SpecPure == InitPure /\ [][NextPure]_vars

-----------------------------------------------------------------------------
(* EvergreenGraphQLClient._execute_query and _try_refresh_token,
   evergreen_graphql_client.py lines 117-205, with the queries of one client
   as tasks of one event loop: a task runs from one await of the network to
   the next, and the tasks take turns there. *)

\* str(e).lower(), word by word.
Lower(w) ==
    CASE w = "Unauthorized" -> "unauthorized"
      [] w = "Internal Server Error" -> "internal server error"
      [] OTHER -> w

ErrorStr(e) == [i \in 1..Len(e.text) |-> Lower(e.text[i])]

\* w in error_str
Mentions(text, w) == \E i \in 1..Len(text) : text[i] = w

\* Lines 144-145: the test the client takes an error for a 401 by.
LooksUnauthorized(e) ==
    Mentions(ErrorStr(e), "401") \/ Mentions(ErrorStr(e), "unauthorized")

\* The subclasses of gql's TransportError.
IsTransportError(e) ==
    e.type \in {"TransportServerError", "TransportQueryError"}

\* What execute_async raises: the server rejects the token with status 401;
\* it fails with status 500; it answers 200 with a GraphQL error that says
\* the user is unauthorized, or one about a task whose id has "401" in it;
\* the connection breaks.
QueryErrors ==
    { Error("TransportServerError", 401, <<"401", "Unauthorized">>),
      Error("TransportServerError", 500, <<"500", "Internal Server Error">>),
      Error("TransportQueryError", 200, <<"Unauthorized">>),
      Error("TransportQueryError", 200, <<"task ", "x", "401", "y", " not found">>),
      Error("ClientConnectionError", 0, <<"connection reset">>) }

\* execute_async returns a result or raises.
QueryOutcomes == {NoError} \cup QueryErrors

\* Lines 174-175: the exception _execute_query raises for a transport error
\* it does not retry; the error is its cause.
FailedToExecute(e) ==
    [Raise("Exception", "Failed to execute GraphQL query") EXCEPT !.error = e.type]

\* Lines 159-173: the exception raised for the error e of the second attempt.
FailedAfterRefresh(e) ==
    IF IsTransportError(e)
    THEN [Raise("Exception", "Failed to execute GraphQL query after token refresh")
             EXCEPT !.error = e.type]
    ELSE [Raise("Exception", "Query failed after token refresh")
             EXCEPT !.error = e.type]

\* The query q with the fields of r set.
WithQuery(g, q, r) == [g EXCEPT !.query[q] = r @@ g.query[q]]

\* The query q is over with the outcome r.
Over(g, q, r) == WithQuery(g, q, [pc |-> "done", out |-> r])

\* connect, lines 76-102: a new transport with the Authorization header made
\* of the bearer token, or with the Api-User and Api-Key headers.
Connect(g) ==
    [g EXCEPT !.transports =
                  Append(@, [header |-> IF Truthy(g.bearer_token)
                                        THEN g.bearer_token ELSE "Api-Key",
                             closed |-> FALSE]),
              !._client = Len(g.transports) + 1]

\* A close that drops the transport without closing it.
ClosedSkipped(g, t) == [g EXCEPT !._client = 0]

\* close, lines 104-115, after its await: the transport t has been closed,
\* and the client has none.
Closed(g, t) ==
    [g EXCEPT !.transports =
                  [i \in DOMAIN @ |-> IF i = t THEN [@[i] EXCEPT !.closed = TRUE]
                                      ELSE @[i]],
              !._client = 0]

\* Lines 196-199 and 147-154 after close: connect, _try_refresh_token
\* returns True, and the query is executed again.
Reconnect(g, q) ==
    LET c == Connect(g) IN
    WithQuery(c, q, [pc |-> "retry", tr |-> c._client, refreshed |-> TRUE,
                     connects |-> g.query[q].connects + 1,
                     execs |-> g.query[q].execs + 1])

\* Lines 284-291: the refresh request leaves with the refresh token held.
SendRefresh(g, q) ==
    [WithQuery(g, q, [pc |-> "refresh", sent |-> _refresh_token])
        EXCEPT !.outstanding = SetKey(@, q, _refresh_token)]

\* _execute_query is called, lines 131-136.  The queries are numbered in the
\* order of their calls.
_execute_query_call(q) ==
    /\ gql.query[q].pc = "idle"
    /\ IF q = 1 THEN TRUE ELSE gql.query[q - 1].pc # "idle"
    /\ gql' = IF gql._client = 0
              THEN Over(gql, q, Raise("RuntimeError", "Client not connected"))
              ELSE WithQuery(gql, q, [pc |-> "first", tr |-> gql._client,
                                      first_tr |-> gql._client, execs |-> 1])
    /\ UNCHANGED <<_access_token, _refresh_token, _user_id, _client, _metadata,
                   token_file, file, now, op, pc, ret, local, pre, cnt, calls,
                   just_ensured, disk>>

\* Lines 136-146, 174-179 and 187-193, and lines 275-291 of refresh_token:
\* the first attempt ends.  An error the client takes for a 401 leads to
\* _try_refresh_token and, with a manager and a refresh token, to _get_client
\* and the refresh request.
_execute_query_answer(q) ==
    /\ gql.query[q].pc = "first"
    /\ \E e \in QueryOutcomes :
         LET g == WithQuery(gql, q, [e |-> e]) IN
         gql' =
           IF e = NoError THEN Over(g, q, Return("result"))
           ELSE IF ~IsTransportError(e) THEN Over(g, q, Raise(e.type, "raised as it is"))
           ELSE IF ~LooksUnauthorized(e) THEN Over(g, q, FailedToExecute(e))
           ELSE IF ~g._auth_manager \/ ~Truthy(g.bearer_token)
           THEN Over(g, q, FailedToExecute(e))
           ELSE LET r == WithQuery(g, q, [refreshes |-> g.query[q].refreshes + 1]) IN
                IF ~Truthy(_refresh_token) THEN Over(r, q, FailedToExecute(e))
                ELSE IF _client THEN SendRefresh(r, q)
                ELSE WithQuery(r, q, [pc |-> "discover"])
    /\ UNCHANGED <<_access_token, _refresh_token, _user_id, _client, _metadata,
                   token_file, file, now, op, pc, ret, local, pre, cnt, calls,
                   just_ensured, disk>>

\* Line 281 of refresh_token: _get_client has its answer; lines 284-291 or
\* 320-322 follow.
_try_refresh_token_get_client(q) ==
    /\ gql.query[q].pc = "discover"
    /\ \E resp \in DiscoveryResponses :
         LET g == _get_client(resp) IN
         /\ _client' = g.client
         /\ _metadata' = g.metadata
         /\ gql' = IF g.raised THEN Over(gql, q, FailedToExecute(gql.query[q].e))
                   ELSE SendRefresh(gql, q)
    /\ UNCHANGED <<_access_token, _refresh_token, _user_id, token_file, file, now,
                   op, pc, ret, local, pre, cnt, calls, just_ensured, disk>>

\* Lines 293-322 of refresh_token and lines 193-204 of _try_refresh_token:
\* the token endpoint answers.  A record is committed and saved, the client
\* takes its access token and begins to close; anything else ends the query.
_try_refresh_token_answer(q) ==
    /\ gql.query[q].pc = "refresh"
    /\ \E resp \in RefreshResponses, written \in BOOLEAN :
         LET o == RefreshOutcome(resp, now)
             g == [gql EXCEPT !.outstanding = DelKey(@, q)]
         IN /\ _access_token' = o.access_token
            /\ _refresh_token' = o.refresh_token
            /\ _user_id' = o.user_id
            /\ file' = IF o.ok THEN _save_token(o.token_data, written) ELSE file
            /\ gql' =
                 IF ~o.ok THEN Over(g, q, FailedToExecute(g.query[q].e))
                 ELSE LET b == [g EXCEPT !.bearer_token = o.token_data["access_token"]]
                      IN IF b._client # 0
                         THEN WithQuery(b, q, [pc |-> "closing", closing |-> b._client])
                         ELSE Reconnect(b, q)
    /\ UNCHANGED <<_client, _metadata, token_file, now, op, pc, ret, local, pre,
                   cnt, calls, just_ensured, disk>>

\* Lines 109-114 and 197-199, then 147-154: the transport has closed; the
\* client connects and the query is executed again.
_try_refresh_token_reconnect(q) ==
    /\ gql.query[q].pc = "closing"
    /\ gql' = Reconnect(Closed(gql, gql.query[q].closing), q)
    /\ UNCHANGED <<_access_token, _refresh_token, _user_id, _client, _metadata,
                   token_file, file, now, op, pc, ret, local, pre, cnt, calls,
                   just_ensured, disk>>

\* Lines 151-173: the second attempt ends.
_execute_query_retry_answer(q) ==
    /\ gql.query[q].pc = "retry"
    /\ \E e \in QueryOutcomes :
         gql' = IF e = NoError THEN Over(gql, q, Return("result"))
                ELSE Over(gql, q, FailedAfterRefresh(e))
    /\ UNCHANGED <<_access_token, _refresh_token, _user_id, _client, _metadata,
                   token_file, file, now, op, pc, ret, local, pre, cnt, calls,
                   just_ensured, disk>>

\* The client as server.py makes it (lines 135-200) once ensure_authenticated
\* has returned True, or with an API key; connect has been called or not.
ClientConfigs ==
    { [bearer_token |-> "Tgood", api_key |-> FALSE, _auth_manager |-> TRUE],
      [bearer_token |-> "Tgood", api_key |-> FALSE, _auth_manager |-> FALSE],
      [bearer_token |-> None, api_key |-> TRUE, _auth_manager |-> FALSE],
      [bearer_token |-> None, api_key |-> TRUE, _auth_manager |-> TRUE] }

InitClient ==
    /\ _access_token = "Tgood"
    /\ _refresh_token \in {"R1", None}
    /\ _user_id = _extract_user_id("Tgood").value
    /\ \/ _client = TRUE /\ _metadata = MdFull
       \/ _client = FALSE /\ _metadata = EmptyDict
    /\ token_file \in BOOLEAN
    /\ file = IF token_file
              THEN FileOf([access_token |-> _access_token,
                           refresh_token |-> _refresh_token])
              ELSE NoFile
    /\ now = Now0
    /\ op = "idle"
    /\ pc = "idle"
    /\ ret = NoRet
    /\ local = NoLocal
    /\ pre = [call |-> NoSnap, rt |-> NoSnap, df |-> NoSnap]
    /\ cnt = NoCnt
    /\ calls = 0
    /\ just_ensured = FALSE
    /\ disk = NoDisk
    /\ \E c \in ClientConfigs, connected \in BOOLEAN :
         LET g == c @@ NoGql IN
         gql = IF connected THEN Connect(g) ELSE g

NextClient ==
    \E q \in Queries :
        \/ _execute_query_call(q)
        \/ _execute_query_answer(q)
        \/ _try_refresh_token_get_client(q)
        \/ _try_refresh_token_answer(q)
        \/ _try_refresh_token_reconnect(q)
        \/ _execute_query_retry_answer(q)

SpecClient == InitClient /\ [][NextClient]_vars

\* The same client with its queries one after the other: _execute_query is
\* called when no other query is under way.
_execute_query_alone(q) ==
    /\ \A p \in Queries : gql.query[p].pc \in {"idle", "done"}
    /\ _execute_query_call(q)

NextQuery ==
    \E q \in Queries :
        \/ _execute_query_alone(q)
        \/ _execute_query_answer(q)
        \/ _try_refresh_token_get_client(q)
        \/ _try_refresh_token_answer(q)
        \/ _try_refresh_token_reconnect(q)
        \/ _execute_query_retry_answer(q)

SpecQuery == InitClient /\ [][NextQuery]_vars

-----------------------------------------------------------------------------
(* _load_oauth_config_from_evergreen_yml and OIDCAuthManager.__init__,
   oidc_auth.py lines 44-117: the construction of the manager from
   ~/.evergreen.yml and the environment, followed by the first request the
   server makes with it. *)

\* What yaml.safe_load yields: null, a scalar, a sequence or a mapping; a
\* scalar or sequence is truthy unless it is empty, a mapping unless it has
\* no key.
YamlNull == [tag |-> "null", truthy |-> FALSE, map |-> EmptyDict]
YamlStr(nonempty) == [tag |-> "str", truthy |-> nonempty, map |-> EmptyDict]
YamlSeq(nonempty) == [tag |-> "seq", truthy |-> nonempty, map |-> EmptyDict]
YamlMap(m) == [tag |-> "map", truthy |-> m # EmptyDict, map |-> m]

\* The oauth sections of the model: each field absent, null, empty or set.
OauthSections ==
    {i @@ c @@ t :
        i \in OptKey("issuer", {None, "", "https://idp.test"}),
        c \in OptKey("client_id", {None, "", "abc"}),
        t \in OptKey("token_file_path", {"~/.kanopy/token.json"})}

\* The documents of the model: an empty file, a scalar, a sequence, and
\* mappings with and without a user and an oauth key.
YamlDocuments ==
    {YamlNull, YamlStr(TRUE), YamlSeq(FALSE), YamlSeq(TRUE)}
    \cup {YamlMap(u @@ o) :
             u \in OptKey("user", {YamlStr(TRUE)}),
             o \in OptKey("oauth", {YamlNull, YamlStr(TRUE), YamlSeq(TRUE)}
                                   \cup {YamlMap(m) : m \in OauthSections})}

\* ~/.evergreen.yml: missing, not to be opened, no YAML, or a document.
NoConfigFile ==
    [exists |-> FALSE, readable |-> FALSE, parseable |-> FALSE, doc |-> YamlNull]
ConfigFiles ==
    {NoConfigFile,
     [NoConfigFile EXCEPT !.exists = TRUE],
     [NoConfigFile EXCEPT !.exists = TRUE, !.readable = TRUE]}
    \cup {[exists |-> TRUE, readable |-> TRUE, parseable |-> TRUE, doc |-> d] :
             d \in YamlDocuments}

\* required, line 72.
required == <<"issuer", "client_id">>

ConfigRaised(exc, msg, missing) ==
    [raised |-> TRUE, exc |-> exc, msg |-> msg, missing |-> missing,
     value |-> EmptyDict]
ConfigReturned(oauth_config) ==
    [raised |-> FALSE, exc |-> "", msg |-> "", missing |-> <<>>,
     value |-> oauth_config]

\* _load_oauth_config_from_evergreen_yml() with the file f: the oauth section
\* it returns or the exception it raises.  config.get and oauth_config.get
\* (lines 64 and 73) are outside the try of lines 56-62 and raise
\* AttributeError on a document, or an oauth value, that is no mapping.
_load_oauth_config_from_evergreen_yml(f) ==
    IF ~f.exists THEN ConfigRaised("OIDCAuthenticationError", "not found", <<>>)
    ELSE IF ~f.readable \/ ~f.parseable
    THEN ConfigRaised("OIDCAuthenticationError", "Failed to parse", <<>>)
    ELSE LET config == IF f.doc.truthy THEN f.doc ELSE YamlMap(EmptyDict)
         IN IF config.tag # "map"
            THEN ConfigRaised("AttributeError", "get", <<>>)
            ELSE LET oauth_config == GetOr(config.map, "oauth", YamlNull)
                 IN IF ~oauth_config.truthy
                    THEN ConfigRaised("OIDCAuthenticationError",
                                      "Missing 'oauth' section", required)
                    ELSE IF oauth_config.tag # "map"
                    THEN ConfigRaised("AttributeError", "get", <<>>)
                    ELSE LET missing ==
                                 SelectSeq(required,
                                     LAMBDA k : ~Truthy(Get(oauth_config.map, k)))
                         IN IF missing # <<>>
                            THEN ConfigRaised("OIDCAuthenticationError",
                                     "Missing required oauth fields", missing)
                            ELSE ConfigReturned(oauth_config.map)

\* EVERGREEN_TOKEN_FILE in the environment: unset, empty or a path.
TokenFileEnvs == {None, "", "/tokens/token.json"}

\* No manager yet: the config file and the environment of the process.
InitConfig ==
    /\ _access_token = None
    /\ _refresh_token = None
    /\ _user_id = NoneId
    /\ _client = FALSE
    /\ _metadata = EmptyDict
    /\ token_file = FALSE
    /\ file = NoFile
    /\ now = Now0
    /\ op = "idle"
    /\ pc = "idle"
    /\ ret = NoRet
    /\ local \in {[config_file |-> f, EVERGREEN_TOKEN_FILE |-> e,
                   oauth_config |-> EmptyDict, issuer |-> None,
                   client_id |-> None, token_file_path |-> None] :
                     f \in ConfigFiles, e \in TokenFileEnvs}
    /\ pre = [call |-> NoSnap, rt |-> NoSnap, df |-> NoSnap]
    /\ cnt = NoCnt
    /\ calls = 0
    /\ just_ensured = FALSE
    /\ disk = NoDisk
    /\ gql = NoGql

\* OIDCAuthManager(), line 92: the config is loaded, and what the loader
\* raises leaves __init__.
__init___load ==
    /\ op = "idle"
    /\ pc = "idle"
    /\ op' = "__init__"
    /\ LET r == _load_oauth_config_from_evergreen_yml(local.config_file)
       IN IF r.raised
          THEN /\ pc' = "done"
               /\ ret' = [Raise(r.exc, r.msg) EXCEPT
                             !.data = [missing |-> r.missing]]
               /\ local' = local
          ELSE /\ pc' = "loaded"
               /\ ret' = NoRet
               /\ local' = [local EXCEPT !.oauth_config = r.value]
    /\ UNCHANGED <<_access_token, _refresh_token, _user_id, _client, _metadata,
                   token_file, file, now, pre, cnt, calls, just_ensured,
                   disk, gql>>

\* Lines 95-117: the attributes of the manager.
__init___attributes ==
    /\ op = "__init__"
    /\ pc = "loaded"
    /\ LET env == local.EVERGREEN_TOKEN_FILE
           token_file_path == IF Truthy(env) THEN env
                              ELSE Get(local.oauth_config, "token_file_path")
       IN /\ local' = [local EXCEPT
                          !.issuer = Get(local.oauth_config, "issuer"),
                          !.client_id = Get(local.oauth_config, "client_id"),
                          !.token_file_path = IF Truthy(token_file_path)
                                              THEN token_file_path ELSE None]
          /\ token_file' = Truthy(token_file_path)
    /\ _client' = FALSE
    /\ _metadata' = EmptyDict
    /\ _access_token' = None
    /\ _refresh_token' = None
    /\ _user_id' = NoneId
    /\ pc' = "constructed"
    /\ ret' = Return("manager")
    /\ UNCHANGED <<file, now, op, pre, cnt, calls, just_ensured, disk, gql>>

\* The first _get_client of the constructed manager, lines 119-126: the
\* discovery document of the issuer is asked for.
_get_client_fetch ==
    /\ op = "__init__"
    /\ pc = "constructed"
    /\ ~_client
    /\ pc' = "discovering"
    /\ cnt' = [cnt EXCEPT !.discovery = @ + 1]
    /\ UNCHANGED <<_access_token, _refresh_token, _user_id, _client, _metadata,
                   token_file, file, now, op, ret, local, pre, calls,
                   just_ensured, disk, gql>>

NextConfig ==
    \/ __init___load
    \/ __init___attributes
    \/ _get_client_fetch

SpecConfig == InitConfig /\ [][NextConfig]_vars

-----------------------------------------------------------------------------
(* Predicates the properties share. *)

Done(name) == op = name /\ pc = "done"

\* refresh_token, or device_flow_auth, has just returned or raised.
RtReturned == pc = "ea_refreshed" \/ Done("refresh_token")
DfReturned == pc = "ea_deviced" \/ Done("device_flow_auth")

Triple == [access_token |-> _access_token, refresh_token |-> _refresh_token,
           user_id |-> _user_id]
TripleOf(s) == [access_token |-> s.access_token, refresh_token |-> s.refresh_token,
                user_id |-> s.user_id]

ValidAt(tok, t) == _check_token_expiry([access_token |-> tok], t).is_valid

\* The token file as recorded in s: it holds an access token that passes the
\* expiry check, with or without an identity; or one that fails it, beside a
\* refresh token; or nothing ensure_authenticated can use.
FileHasToken(s) ==
    /\ token_file
    /\ s.file.exists
    /\ s.file.parseable
    /\ "access_token" \in DOMAIN s.file.data

FileValid(s) == FileHasToken(s) /\ _check_token_expiry(s.file.data, s.now).is_valid

FileGood(s) ==
    FileValid(s) /\ ~_extract_user_id(s.file.data["access_token"]).raised

FileValidNoIdentity(s) ==
    FileValid(s) /\ _extract_user_id(s.file.data["access_token"]).raised

FileExpiredWithRefresh(s) ==
    /\ FileHasToken(s)
    /\ ~_check_token_expiry(s.file.data, s.now).is_valid
    /\ Truthy(Get(s.file.data, "refresh_token"))

NoUsableFile(s) == ~FileValid(s) /\ ~FileExpiredWithRefresh(s)

\* The token endpoint answered 200 with an access token that yields no identity.
IdentityFailureAnswer(resp) ==
    /\ ~resp.exc
    /\ resp.status = 200
    /\ resp.json
    /\ "access_token" \in DOMAIN resp.body
    /\ _extract_user_id(resp.body["access_token"]).raised

NoNetwork ==
    cnt.discovery = 0 /\ cnt.refresh = 0 /\ cnt.device_code = 0 /\ cnt.poll = 0

-----------------------------------------------------------------------------
(* Properties. *)

\* C1: whenever ensure_authenticated returns True, the access token held in
\* memory passes _check_token_expiry at that moment, whichever path produced it.
C1_SuccessHoldsValidToken ==
    Done("ensure_authenticated") /\ ret = Return("True")
        => ValidAt(_access_token, now)

C3_DeviceFlowValidatesFirst ==
    /\ DfReturned /\ IdentityFailureAnswer(local.response) =>
          /\ ret.kind = "raise"
          /\ ret.exc = "OIDCAuthenticationError"
          /\ Triple = TripleOf(pre.df)
          /\ file = pre.df.file
          /\ cnt.save = 0
    /\ pc = "df_save" =>
          /\ GoodTokenAnswer(local.response)
          /\ _access_token = local.token_data["access_token"]
          /\ _refresh_token = Get(local.token_data, "refresh_token")
          /\ _user_id = _extract_user_id(_access_token).value
          /\ file = pre.df.file
          /\ cnt.save = 0
    /\ DfReturned /\ ret.kind = "return" =>
          /\ ret.data = _normalize_token_data(local.response.body, now)
          /\ _access_token = ret.data["access_token"]
          /\ _refresh_token = Get(ret.data, "refresh_token")
          /\ _user_id = _extract_user_id(_access_token).value
          /\ cnt.save = 1
          /\ file \in {FileOf(ret.data), pre.df.file}

C3_Witness ==
    /\ DfReturned
    /\ IdentityFailureAnswer(local.response)
    /\ ret.kind = "raise"
    /\ Truthy(pre.df.access_token)
    /\ Truthy(pre.df.refresh_token)

\* C4: an ensure_authenticated call that starts with an expired token beside a
\* refresh token in the token file, and whose refresh request is answered 200
\* with a good token, sends exactly one refresh request, never starts the
\* device flow, and returns True holding the refreshed token.
C4_RefreshPathOnly ==
    /\ Done("ensure_authenticated")
    /\ FileExpiredWithRefresh(pre.call)
    /\ cnt.refresh_good
    => /\ cnt.refresh = 1
       /\ cnt.device_calls = 0
       /\ cnt.device_code = 0
       /\ cnt.poll = 0
       /\ ret = Return("True")
       /\ GoodTokenAnswer(local.response)
       /\ _access_token = local.response.body["access_token"]
       /\ _user_id = _extract_user_id(_access_token).value

C4_Witness ==
    /\ Done("ensure_authenticated")
    /\ FileExpiredWithRefresh(pre.call)
    /\ cnt.refresh_good
    /\ ret = Return("True")
    /\ _access_token # pre.call.file.data["access_token"]

\* C5: when the refresh attempted inside ensure_authenticated fails, the call
\* goes on to the device flow, once, and its outcome is the device flow's:
\* the same exception, or True holding the device flow's token.
C5_FailedRefreshFallsToDeviceFlow ==
    /\ Done("ensure_authenticated")
    /\ cnt.refresh_calls = 1
    /\ cnt.rt_ret = Return("None")
    => /\ cnt.device_calls = 1
       /\ cnt.df_ret.kind \in {"raise", "return"}
       /\ cnt.df_ret.kind = "raise" => ret = cnt.df_ret
       /\ cnt.df_ret.kind = "return" =>
             /\ ret = Return("True")
             /\ _access_token = cnt.df_ret.data["access_token"]

C5_Witness ==
    /\ Done("ensure_authenticated")
    /\ cnt.refresh = 1
    /\ cnt.rt_ret = Return("None")
    /\ cnt.df_ret.kind = "return"
    /\ ret = Return("True")

\* C6: an ensure_authenticated call that starts with no token in memory, no
\* usable token file and no refresh token invokes the device flow exactly once
\* and sends no refresh request; refresh_token called with no refresh token
\* held returns None without a network request.
C6_DeviceFlowExactlyOnce ==
    /\ /\ Done("ensure_authenticated")
       /\ ~Truthy(pre.call.access_token)
       /\ ~Truthy(pre.call.refresh_token)
       /\ NoUsableFile(pre.call)
       => cnt.device_calls = 1 /\ cnt.refresh = 0
    /\ Done("refresh_token") /\ ~Truthy(pre.rt.refresh_token)
       => ret = Return("None") /\ NoNetwork

\* C7: with an access token in memory that _check_token_expiry finds valid,
\* ensure_authenticated returns True at once: no network request, no read of
\* the token file, the triple unchanged.
C7_AlreadyAuthenticatedIsImmediate ==
    /\ Done("ensure_authenticated")
    /\ Truthy(pre.call.access_token)
    /\ ValidAt(pre.call.access_token, pre.call.now)
    => /\ ret = Return("True")
       /\ NoNetwork
       /\ cnt.file_read = 0
       /\ cnt.save = 0
       /\ Triple = TripleOf(pre.call)
       /\ file = pre.call.file
       /\ now = pre.call.now

C7_Witness ==
    /\ Done("ensure_authenticated")
    /\ Truthy(pre.call.access_token)
    /\ ValidAt(pre.call.access_token, pre.call.now)
    /\ Truthy(pre.call.refresh_token)
    /\ FileExpiredWithRefresh(pre.call)
    /\ ret = Return("True")

\* C8: with no valid token in memory and a token file whose access token
\* passes the expiry check and yields an identity, ensure_authenticated
\* returns True holding the file's access token, the file's refresh token (or
\* none) and the identity of that access token.
C8_AdoptsTokenFile ==
    /\ Done("ensure_authenticated")
    /\ ~(Truthy(pre.call.access_token)
         /\ ValidAt(pre.call.access_token, pre.call.now))
    /\ FileGood(pre.call)
    => /\ ret = Return("True")
       /\ _access_token = pre.call.file.data["access_token"]
       /\ _refresh_token = Get(pre.call.file.data, "refresh_token")
       /\ _user_id = _extract_user_id(pre.call.file.data["access_token"]).value

\* C9: given a valid cached token in the token file, ensure_authenticated on
\* a freshly constructed manager makes no network call.
C9_CachedTokenNoNetwork ==
    /\ Done("ensure_authenticated")
    /\ calls = 1
    /\ FileGood(pre.call)
    => NoNetwork

\* C10: when the token file holds a token that passes the expiry check but
\* yields no identity, ensure_authenticated discards it and attempts a refresh
\* whenever a refresh token is held, from the file or from earlier in the
\* session; it starts the device flow only when none is held.
C10_CorruptCacheStillRefreshes ==
    /\ op = "ensure_authenticated"
    /\ pc \in {"rt_entry", "df_entry"}
    /\ cnt.refresh_calls = 0
    /\ FileValidNoIdentity(pre.call)
    => /\ _access_token = None
       /\ pc = "df_entry" =>
             /\ ~Truthy(pre.call.refresh_token)
             /\ ~Truthy(Get(pre.call.file.data, "refresh_token"))

C12_DeviceFlowFailureIsTerminal ==
    /\ op = "ensure_authenticated" => cnt.device_calls <= 1
    /\ Done("ensure_authenticated") /\ cnt.df_ret.kind = "raise" =>
          /\ ret = cnt.df_ret
          /\ ret.exc = "OIDCAuthenticationError"
          /\ cnt.device_calls = 1
    /\ AfterDeviceFlow(Return("None")) = Stay("done", Return("False"))
    /\ AfterDeviceFlow(ReturnData(EmptyDict)) = Stay("done", Return("False"))

C12_Witness ==
    /\ Done("ensure_authenticated")
    /\ cnt.df_ret.kind = "raise"
    /\ cnt.poll > 0
    /\ cnt.refresh = 1
    /\ ret.kind = "raise"

\* C13: an ensure_authenticated call made immediately after one that returned
\* True also returns True, sends no network request, and leaves the triple and
\* the token file as they were.
C13_EnsureAuthenticatedIdempotent ==
    Done("ensure_authenticated") /\ just_ensured =>
        /\ ret = Return("True")
        /\ NoNetwork
        /\ Triple = TripleOf(pre.call)
        /\ file = pre.call.file

\* C14: a failed metadata discovery does not by itself end
\* ensure_authenticated: the call raises only out of its device-flow step, and
\* with a token file holding a valid token with an identity it returns True
\* holding that token even though discovery failed.
C14_DiscoveryFailureFallsBack ==
    /\ Done("ensure_authenticated") /\ ret.kind = "raise" => cnt.device_calls = 1
    /\ /\ Done("ensure_authenticated")
       /\ FileGood(pre.call)
       /\ cnt.discovery > 0
       /\ ~_client
       => /\ ret = Return("True")
          /\ _access_token = pre.call.file.data["access_token"]

\* The running method is at a call of _get_client.
NeedsClient ==
    \/ pc \in {"ea_get_client", "df_entry"}
    \/ pc = "rt_entry" /\ Truthy(_refresh_token)

\* C15: on one manager the metadata is fetched successfully at most once:
\* once the client is set it stays set, the metadata is never replaced and no
\* discovery request is sent again, whatever calls follow.  A discovery that
\* failed leaves the client unset, and then the next call of _get_client
\* sends the request again.
C15_MetadataFetchedOnce ==
    /\ [](_client => "token_endpoint" \in DOMAIN _metadata)
    /\ [](Done("ensure_authenticated") /\ ret.msg = "discovery" => ~_client)
    /\ [][_client => /\ _client'
                     /\ _metadata' = _metadata
                     /\ cnt'.discovery <= cnt.discovery]_vars
    /\ [][~_client /\ NeedsClient => cnt'.discovery = cnt.discovery + 1]_vars
    /\ [][~_client /\ _client' => cnt'.discovery = cnt.discovery + 1]_vars

C15_Witness ==
    /\ Done("device_flow_auth")
    /\ calls = 2
    /\ _client
    /\ cnt.discovery = 0
    /\ cnt.device_code = 1

-----------------------------------------------------------------------------
(* The poll loop of the device flow. *)

\* The device flow is between the sleep and an answer, or about to sleep.
Polling == pc \in {"df_loop", "df_poll"}

\* At least one poll was answered in this call; local.response is the last
\* answer, and cnt.df_ret what device_flow_auth handed back, if it has.
AfterPoll == cnt.poll > 0

TimedOut == cnt.df_ret = Raise("OIDCAuthenticationError", "Device flow timed out")

KnownErrors == {"authorization_pending", "slow_down", "expired_token"}

\* A 401 whose error code is none of the three the loop knows (a body that is
\* no JSON included).
Unknown401(resp) ==
    /\ ~resp.exc
    /\ resp.status = 401
    /\ ~(resp.json /\ Get(resp.body, "error") \in KnownErrors)

\* An answer that is neither 200 nor 401 and carries none of the three codes.
OtherError(resp) ==
    /\ ~resp.exc
    /\ resp.status \notin {200, 401}
    /\ ~(resp.json /\ Get(resp.body, "error") \in KnownErrors)

C17_ExpiredTokenFailsAtOnce ==
    AfterPoll /\ ErrorAnswer(local.response, "expired_token") =>
        /\ ~Polling
        /\ pc # "df_save"
        /\ cnt.df_ret = Raise("OIDCAuthenticationError", "Device code expired")
        /\ Triple = TripleOf(pre.df)
        /\ file = pre.df.file
        /\ cnt.save = 0

C17_Witness ==
    /\ DfReturned
    /\ local.response = Http(401, [error |-> "expired_token"])
    /\ cnt.poll = 2
    /\ Truthy(pre.df.access_token)
    /\ ret.kind = "raise"

\* C18: during one device flow the poll interval starts at the interval of the
\* device-code answer (5 when it has none), rises by exactly 2 with each
\* slow_down answer and changes on nothing else, so that it always equals the
\* initial interval plus 2 times the slow_down answers received and never
\* decreases; and every poll follows a sleep of the interval then current.
C18_IntervalOnlyGrows ==
    /\ [](local.device_data # EmptyDict =>
             local.interval = GetOr(local.device_data, "interval", DefaultInterval)
                                  + SlowDownStep * cnt.slow_down)
    /\ [][local.device_data # EmptyDict /\ local'.device_data # EmptyDict =>
             /\ local'.interval >= local.interval
             /\ local'.interval # local.interval =>
                   /\ ErrorAnswer(local'.response, "slow_down")
                   /\ cnt'.poll = cnt.poll + 1
                   /\ local'.interval = local.interval + SlowDownStep]_vars
    /\ [][cnt'.poll = cnt.poll + 1 => pc = "df_poll"]_vars
    /\ [][pc' = "df_poll" =>
             /\ pc = "df_loop"
             /\ now' = now + local.interval
             /\ local' = local]_vars

C18_Witness ==
    /\ pc = "df_poll"
    /\ cnt.slow_down = 1
    /\ cnt.poll = 1
    /\ "interval" \notin DOMAIN local.device_data
    /\ local.interval = DefaultInterval + SlowDownStep
    /\ now = local.start_time + 2 * DefaultInterval + SlowDownStep

\* C19: a poll answer with status 401 whose error code is none of
\* authorization_pending, slow_down, expired_token (a body that is no JSON
\* included) is handled as authorization_pending is: the flow polls on with
\* the interval and the triple unchanged.  No count of such answers fails the
\* flow; after one, only the time ceiling ends it.
C19_Unknown401KeepsPolling ==
    /\ [](AfterPoll /\ Unknown401(local.response) => Polling \/ TimedOut)
    /\ [][cnt'.poll = cnt.poll + 1 /\ Unknown401(local'.response) =>
             /\ pc' = "df_loop"
             /\ local'.interval = local.interval
             /\ <<_access_token, _refresh_token, _user_id, file>>'
                    = <<_access_token, _refresh_token, _user_id, file>>
             /\ ret' = ret]_vars

C19_Witness ==
    /\ pc = "df_poll"
    /\ cnt.poll = MaxPolls
    /\ cnt.pending = 0
    /\ cnt.slow_down = 0
    /\ ~local.response.json
    /\ Unknown401(local.response)

\* C20: a poll answer that is neither 200 nor 401 and whose error code is none
\* of authorization_pending, slow_down, expired_token ends the device flow at
\* once with OIDCAuthenticationError carrying the error and description of the
\* answer (unknown_error and the text of the body when it is no JSON); no poll
\* follows it.
C20_OtherErrorFailsWithServerError ==
    AfterPoll /\ OtherError(local.response) =>
        /\ ~Polling
        /\ pc # "df_save"
        /\ cnt.df_ret.kind = "raise"
        /\ cnt.df_ret.exc = "OIDCAuthenticationError"
        /\ cnt.df_ret.msg = "Authentication failed"
        /\ IF local.response.json
           THEN /\ cnt.df_ret.error =
                       GetOr(local.response.body, "error", "unknown_error")
                /\ cnt.df_ret.description =
                       GetOr(local.response.body, "error_description", "")
           ELSE /\ cnt.df_ret.error = "unknown_error"
                /\ cnt.df_ret.description = local.response.text
        /\ Triple = TripleOf(pre.df)

C20_Witness ==
    /\ DfReturned
    /\ local.response =
           Http(400, [error |-> "access_denied", error_description |-> "denied"])
    /\ cnt.poll = 2
    /\ cnt.df_ret.description = "denied"

-----------------------------------------------------------------------------
(* The end of the device flow. *)

\* A poll answer after which the loop polls again: authorization_pending,
\* slow_down, or a 401 that carries no expired_token.
KeepsPolling(resp) ==
    \/ ErrorAnswer(resp, "authorization_pending")
    \/ ErrorAnswer(resp, "slow_down")
    \/ Unknown401(resp)

\* What device_flow_auth handed back is a token record.
ReturnedRecord(r) ==
    r.kind = "return" /\ r.value = "token_data" /\ "access_token" \in DOMAIN r.data

\* C21: device_flow_auth always terminates.  A flow that has started polling
\* always comes to its exit, however many answers keep it polling (the clock
\* advances by the interval with every sleep); a flow whose last answer was
\* authorization_pending, slow_down or a 401 (so that every answer before it
\* was one too) exits with OIDCAuthenticationError "Device flow timed out";
\* and every exit of device_flow_auth is a returned token record or an
\* OIDCAuthenticationError.
C21_DeviceFlowTerminates ==
    /\ [](DfReturned =>
             \/ ReturnedRecord(cnt.df_ret)
             \/ cnt.df_ret.kind = "raise" /\ cnt.df_ret.exc = "OIDCAuthenticationError")
    /\ [](DfReturned /\ AfterPoll /\ KeepsPolling(local.response) => TimedOut)
    /\ [](cnt.poll < NoPollBudget)
    /\ (op = "device_flow_auth" /\ pc # "done") ~> DfReturned

C21_Witness ==
    /\ DfReturned
    /\ TimedOut
    /\ cnt.poll > MaxPolls + 1
    /\ cnt.pending > 0
    /\ cnt.slow_down > 0
    /\ Unknown401(local.response)
    /\ GetOr(local.device_data, "interval", DefaultInterval) = LiveInterval

\* C22: the device flow polls the token endpoint for at most 300 seconds of
\* elapsed time: when a poll request is sent (the sleep before it is over), no
\* more than max_wait_time seconds have passed since polling began, whatever
\* the interval and the answers before.
C22_NoPollPastCeiling ==
    pc = "df_poll" => now - local.start_time <= max_wait_time

-----------------------------------------------------------------------------
(* What the manager persists. *)

\* C27: every token record the manager writes to the token file, after a
\* refresh or a device flow, that has an access_token also has expires_at,
\* whatever the token endpoint's answer carried (expires_in, expires_at, both
\* or neither); and an expires_at of the answer is written as it came.
C27_WrittenRecordHasExpiresAt ==
    cnt.save > 0 /\ file # pre.call.file =>
        /\ "access_token" \in DOMAIN file.data => "expires_at" \in DOMAIN file.data
        /\ "expires_at" \in DOMAIN local.response.body =>
               file.data["expires_at"] = local.response.body["expires_at"]

-----------------------------------------------------------------------------
(* The token file under _save_token. *)

\* The manager is in the call that saves, or has just finished it.
Saving == op \in {"_save_token", "refresh_token"}

\* No other process has been in _save_token.
Alone == \A w \in Writers \ {1} : disk.proc[w] = IdleProc

\* Process w has been in _save_token.
Began(w) == disk.proc[w].record # EmptyDict

\* The manager's _save_token has renamed the temporary file to the token file.
Renamed ==
    /\ token_file
    /\ Began(1)
    /\ disk.proc[1].pc \in {"returned", "idle"}
    /\ ~disk.proc[1].failed

\* The directory after a crash of the machine: of each file, what had reached
\* stable storage.
Crashed(d) == [d EXCEPT !.data = d.durable]

\* C23: _save_token is atomic with respect to crashes and readers.  While one
\* process saves, at every point of the save a reader of the token file path
\* finds the old file whole (or no file, where there was none) until the
\* rename, and the new record whole after it; and so does a reader after a
\* crash at that point: before the rename the original file is as it was.
\* (A crash that undoes the rename itself leaves the old file's name and
\* content, the first of the two cases.)
C23_SaveIsAtomic ==
    Saving /\ Alone =>
        /\ TokenFile(disk) = IF Renamed THEN FileOf(disk.proc[1].record)
                             ELSE pre.call.file
        /\ TokenFile(Crashed(disk)) = TokenFile(disk)
        /\ ~Renamed /\ "target" \in DOMAIN disk.path =>
              /\ disk.path["target"] = 1
              /\ disk.data[1] = JsonDump(pre.call.file.data)
              /\ disk.durable[1] = disk.data[1]

C23_Witness ==
    /\ Saving
    /\ Alone
    /\ disk.proc[1].pc = "write"
    /\ disk.proc[1].pos > 0
    /\ "temp" \in DOMAIN disk.path
    /\ ~JsonParses(disk.data[disk.path["temp"]])
    /\ TokenFile(disk) = AdoptedFile

\* The texts a reader may find whole: the file as it was, and the record of
\* each process that has been in _save_token.
WholeTexts ==
    {JsonDump(disk.proc[w].record) : w \in {v \in Writers : Began(v)}}
    \cup (IF pre.call.file.parseable THEN {JsonDump(pre.call.file.data)} ELSE {})

\* C24: when two processes run _save_token on the same token file path at the
\* same time, the token file is never found holding a part of a record or a
\* mix of two, and once both are through it holds the whole record of one of
\* them.
C24_LastWriterWins ==
    Saving =>
        /\ "target" \in DOMAIN disk.path =>
              disk.data[disk.path["target"]] \in WholeTexts
        /\ (\A w \in Writers : Began(w) /\ disk.proc[w].pc \in {"returned", "idle"}) =>
              \E w \in Writers :
                  /\ "target" \in DOMAIN disk.path
                  /\ disk.data[disk.path["target"]] = JsonDump(disk.proc[w].record)

\* C25: persistence is best-effort and never fatal.  _save_token never raises;
\* without a token file path it writes nothing; when the write fails, the
\* temporary file is gone afterwards and the token file is as it was; and a
\* refresh_token whose save fails has committed the new tokens and returns
\* the record.
C25_SaveNeverFatal ==
    Alone =>
        /\ disk.proc[1].pc # "raised"
        /\ Done("_save_token") => ret = Return("None")
        /\ Saving /\ pc = "done" /\ cnt.save > 0 /\ ~token_file =>
              disk = [NoDisk EXCEPT !.proc[1].record = disk.proc[1].record]
        /\ Saving /\ pc = "done" /\ cnt.save > 0 /\ disk.proc[1].failed =>
              /\ "temp" \notin DOMAIN disk.path
              /\ file = pre.call.file
        /\ Done("refresh_token") /\ cnt.save > 0 =>
              /\ ret = ReturnData(local.token_data)
              /\ _access_token = local.token_data["access_token"]
              /\ _refresh_token = GetOr(local.token_data, "refresh_token",
                                        pre.rt.refresh_token)

\* The call before this one saved rec to the token file, and nothing else
\* has written there.
Saved(rec) ==
    /\ Alone
    /\ Renamed
    /\ disk.proc[1].record = rec
    /\ disk.proc[1].pc = "idle"

-----------------------------------------------------------------------------
(* _check_token_expiry and _extract_user_id on every input. *)

\* The claims pyjwt.decode gave for the token at hand, if it gave any.
Decoded == Get(local.token_data, "access_token") \in DOMAIN local.jwt
TheClaims == local.jwt[local.token_data["access_token"]]

\* The token at hand has a number other than 0 as exp.
NumericExp == Decoded /\ "exp" \in DOMAIN TheClaims /\ TheClaims["exp"] # 0

\* Ticks from the clock to exp.
TicksLeft == TheClaims["exp"] * TicksPerSecond - local.clock

\* C28: _check_token_expiry applies a 60-second buffer.  For a token that
\* decodes and has a non-zero number as exp, it answers valid exactly when
\* exp minus the clock is more than 60 s: with 60 s or less left the token is
\* invalid though time remains; with more, it is valid and remaining > 0;
\* with exp in the past it is invalid and remaining <= 0.
C28_SixtySecondBuffer ==
    Done("_check_token_expiry") /\ NumericExp =>
        /\ ret.kind = "return"
        /\ ret.data.is_valid <=> TicksLeft > 60 * TicksPerSecond
        /\ TicksLeft > 60 * TicksPerSecond => ret.data.is_valid /\ ret.data.remaining > 0
        /\ TicksLeft > 0 /\ TicksLeft <= 60 * TicksPerSecond =>
              ~ret.data.is_valid /\ ret.data.remaining >= 0
        /\ TicksLeft <= 0 => ~ret.data.is_valid /\ ret.data.remaining <= 0

C28_Witness ==
    /\ Done("_check_token_expiry")
    /\ NumericExp
    /\ TicksLeft = 60 * TicksPerSecond
    /\ ~ret.data.is_valid
    /\ ret.data.remaining = 60

\* The token record is one the expiry cannot be read from: no access_token
\* or an empty one, one that pyjwt.decode rejects, or one without exp, with
\* exp 0 or with an exp that is no number.
BadExpiryInput ==
    \/ ~Truthy(Get(local.token_data, "access_token"))
    \/ ~Decoded
    \/ Decoded /\ ~NumericExp

\* C29: _check_token_expiry is total on bad input: it returns (False, 0)
\* and does not raise.
C29_TotalOnBadInput ==
    Done("_check_token_expiry") /\ BadExpiryInput =>
        /\ ret.kind = "return"
        /\ ret.data = [is_valid |-> FALSE, remaining |-> 0]

C29_Witness ==
    /\ Done("_check_token_expiry")
    /\ Decoded
    /\ Get(TheClaims, "exp_nonnumeric") = "soon"
    /\ ret.kind = "return"
    /\ ret.data = [is_valid |-> FALSE, remaining |-> 0]

\* The identity _extract_user_id gives for the claims c: a string, or
\* NoneId where it raises.
IdentityOf(c) == _extract_user_id_of("T" :> c, "T").value

\* The result of the call at hand, NoneId where it raised.
TheIdentity == IF ret.kind = "return" THEN ret.data ELSE NoneId

\* c and d agree on the claim k.
SameClaim(c, d, k) ==
    /\ k \in DOMAIN c <=> k \in DOMAIN d
    /\ k \in DOMAIN c => c[k] = d[k]

\* The claim k is present in c: there, and not the empty string.
Present(c, k) == k \in DOMAIN c /\ c[k] # <<>>

\* C30 as stated: with email present the identity is the part of email
\* before "@", otherwise preferred_username if present, otherwise sub; and
\* the claims of lower precedence do not change the result where one of
\* higher precedence is present.
C30_PrecedenceWherePresent ==
    Done("_extract_user_id") /\ Decoded =>
        /\ Present(TheClaims, "email") =>
              /\ TheIdentity = SplitAtFirst(TheClaims["email"])
              /\ \A d \in IdentityClaims :
                     SameClaim(TheClaims, d, "email") => IdentityOf(d) = TheIdentity
        /\ ~Present(TheClaims, "email") /\ Present(TheClaims, "preferred_username") =>
              /\ TheIdentity = TheClaims["preferred_username"]
              /\ \A d \in IdentityClaims :
                     ~Present(d, "email")
                         /\ SameClaim(TheClaims, d, "preferred_username") =>
                             IdentityOf(d) = TheIdentity
        /\ ~Present(TheClaims, "email") /\ ~Present(TheClaims, "preferred_username")
              /\ Present(TheClaims, "sub") =>
              TheIdentity = TheClaims["sub"]

\* An email the code uses: one with an "@" in it.
UsableEmail(c) == "email" \in DOMAIN c /\ HasAt(c["email"])

\* C30, amended: the same with an email counted only if it has an "@" in it.
C30_PrecedenceWhereUsable ==
    Done("_extract_user_id") /\ Decoded =>
        /\ UsableEmail(TheClaims) =>
              /\ TheIdentity = SplitAtFirst(TheClaims["email"])
              /\ \A d \in IdentityClaims :
                     SameClaim(TheClaims, d, "email") => IdentityOf(d) = TheIdentity
        /\ ~UsableEmail(TheClaims) /\ Present(TheClaims, "preferred_username") =>
              /\ TheIdentity = TheClaims["preferred_username"]
              /\ \A d \in IdentityClaims :
                     ~UsableEmail(d) /\ SameClaim(TheClaims, d, "preferred_username") =>
                         IdentityOf(d) = TheIdentity
        /\ ~UsableEmail(TheClaims) /\ ~Present(TheClaims, "preferred_username")
              /\ Present(TheClaims, "sub") =>
              TheIdentity = TheClaims["sub"]

C30_Witness ==
    /\ Done("_extract_user_id")
    /\ Decoded
    /\ "email" \in DOMAIN TheClaims
    /\ TheClaims["email"] = <<"a">>
    /\ Present(TheClaims, "preferred_username")
    /\ "sub" \in DOMAIN TheClaims
    /\ TheIdentity = <<"p">>

\* None of email, preferred_username and sub is present in c.
NoIdentityClaim(c) ==
    /\ ~Present(c, "email")
    /\ ~Present(c, "preferred_username")
    /\ ~Present(c, "sub")

\* C31: _extract_user_id fails in two ways and no other, both an
\* OIDCAuthenticationError: as malformed when pyjwt.decode rejects the token,
\* as missing identity claims when the token decodes and none of email,
\* preferred_username and sub is present; a token that decodes is never
\* reported as malformed.
C31_TwoFailureConditions ==
    Done("_extract_user_id") =>
        /\ ret.kind = "raise" =>
              /\ ret.exc = "OIDCAuthenticationError"
              /\ ret.msg \in {"malformed", "missing identity claims"}
        /\ ~Decoded => ret.kind = "raise" /\ ret.msg = "malformed"
        /\ Decoded /\ NoIdentityClaim(TheClaims) =>
              ret.kind = "raise" /\ ret.msg = "missing identity claims"
        /\ Decoded => ret.msg # "malformed"

C31_Witness ==
    /\ Done("_extract_user_id")
    /\ Decoded
    /\ NoIdentityClaim(TheClaims)
    /\ "sub" \in DOMAIN TheClaims
    /\ ret = Raise("OIDCAuthenticationError", "missing identity claims")

-----------------------------------------------------------------------------
(* The GraphQL client. *)

\* The server rejected the token of the query: status 401, or a GraphQL
\* error that says unauthorized.
AuthRejection(e) ==
    /\ IsTransportError(e)
    /\ e.code = 401 \/ e.text = <<"Unauthorized">>

\* q is the query called last.
Latest(q) ==
    /\ gql.query[q].pc # "idle"
    /\ \A p \in Queries : p > q => gql.query[p].pc = "idle"

\* C32: one _execute_query call executes the query at most twice, calls the
\* manager's refresh at most once and reconnects at most once; it executes
\* the query a second time only after a 401/unauthorized transport error and
\* a successful refresh, and what the second attempt raises is raised with
\* no further refresh or attempt.
C32_TwoAttemptLoop ==
    \A q \in Queries :
        LET t == gql.query[q] IN
        /\ t.execs <= 2
        /\ t.refreshes <= 1
        /\ t.connects <= 1
        /\ t.execs = 2 =>
              /\ AuthRejection(t.e)
              /\ t.refreshed
              /\ t.refreshes = 1
              /\ t.connects = 1
        /\ t.pc = "done" /\ t.execs = 2 /\ t.out.kind = "raise" =>
              t.out.msg \in {"Failed to execute GraphQL query after token refresh",
                             "Query failed after token refresh"}

\* C33: after a rejection and a successful refresh the client reconnects
\* before it retries: the transport of the first attempt is closed and no
\* longer the client's, the retry runs on a new transport whose Authorization
\* header carries the new access token, and from then on the client's
\* bearer_token is the manager's access_token.
C33_ReconnectsBeforeRetry ==
    \A q \in Queries :
        LET t == gql.query[q] IN
        /\ t.pc = "closing" => gql.bearer_token = _access_token /\ t.refreshes = 1
        /\ t.pc = "retry" =>
              /\ t.refreshed
              /\ t.refreshes = 1
              /\ t.sent # None
              /\ gql.transports[t.first_tr].closed
              /\ t.tr # t.first_tr
              /\ gql._client = t.tr
              /\ ~gql.transports[t.tr].closed
              /\ gql.transports[t.tr].header = _access_token
              /\ gql.bearer_token = _access_token
        /\ t.pc = "done" /\ t.refreshed => gql.bearer_token = _access_token
        /\ t.pc = "done" /\ t.refreshed /\ Latest(q) =>
              /\ gql._client = t.tr
              /\ gql.transports[t.tr].header = _access_token

C33_Witness ==
    \E q \in Queries :
        /\ gql.query[q].pc = "retry"
        /\ gql.query[q].e.code = 401
        /\ _access_token = "Tlong"
        /\ gql.transports[gql.query[q].tr].header = "Tlong"
        /\ gql.transports[gql.query[q].first_tr].header = "Tgood"

\* C34: authentication attempts of one manager do not overlap: with two
\* queries of one client rejected while both are under way, at most one
\* refresh request is outstanding at the token endpoint at any time, and no
\* two requests carry the same refresh token.
C34_OneRefreshAtATime ==
    /\ Cardinality(DOMAIN gql.outstanding) <= 1
    /\ \A p, q \in DOMAIN gql.outstanding :
           p # q => gql.outstanding[p] # gql.outstanding[q]

\* C39: where the client cannot refresh after a 401 (no manager, API-key
\* authentication, no refresh token, a refresh that fails), the query is not
\* executed again, _execute_query raises for the original error, and the
\* bearer token and the connected transport are as they were; and a
\* transport error that is no 401/unauthorized does not lead to a refresh.
C39_NoRefreshNoRetry ==
    \A q \in Queries :
        LET t == gql.query[q] IN
        /\ t.pc = "done" /\ IsTransportError(t.e) /\ ~t.refreshed =>
              /\ t.out = FailedToExecute(t.e)
              /\ t.execs = 1
              /\ t.connects = 0
              /\ Latest(q) =>
                    /\ gql._client = t.first_tr
                    /\ ~gql.transports[t.first_tr].closed
                    /\ gql.transports[t.first_tr].header =
                           IF Truthy(gql.bearer_token) THEN gql.bearer_token
                           ELSE "Api-Key"
        /\ ~gql._auth_manager \/ ~Truthy(gql.bearer_token) =>
              t.refreshes = 0 /\ ~t.refreshed
        /\ t.refreshes = 1 /\ t.sent = None /\ t.pc = "done" => ~t.refreshed
        /\ IsTransportError(t.e) /\ ~AuthRejection(t.e) => t.refreshes = 0

-----------------------------------------------------------------------------
(* The configuration. *)

\* The oauth section of the file, as far as it is a mapping that was read.
OauthOf(f) ==
    IF f.exists /\ f.readable /\ f.parseable /\ f.doc.tag = "map"
       /\ "oauth" \in DOMAIN f.doc.map /\ f.doc.map["oauth"].tag = "map"
    THEN f.doc.map["oauth"].map
    ELSE EmptyDict

\* The required fields that are missing or empty in the oauth section.
MissingIn(o) == SelectSeq(required, LAMBDA k : ~Truthy(Get(o, k)))

\* C35: configuration errors are fatal at construction and name what is
\* missing.  With the config file absent, not to be read, without an oauth
\* section, or with an oauth section that lacks issuer or client_id, the
\* construction raises OIDCAuthenticationError; where the oauth section has
\* fields but not both of issuer and client_id the exception lists exactly the
\* required fields that are missing or empty; and in none of these cases is a
\* manager constructed or a request sent.
C35_ConfigErrorsFatal ==
    LET f == local.config_file
        o == OauthOf(f)
    IN MissingIn(o) # <<>> =>
           /\ pc \notin {"constructed", "discovering", "loaded"}
           /\ cnt = NoCnt
           /\ pc = "done" =>
                 /\ ret.kind = "raise"
                 /\ ret.exc = "OIDCAuthenticationError"
                 /\ o # EmptyDict => ret.data.missing = MissingIn(o)

\* The same with any exception: the construction never succeeds on such a
\* file whatever is raised.
ConfigErrorsAlwaysRaise ==
    LET f == local.config_file
        o == OauthOf(f)
    IN MissingIn(o) # <<>> =>
           /\ pc \notin {"constructed", "discovering", "loaded"}
           /\ cnt = NoCnt
           /\ pc = "done" =>
                 /\ ret.kind = "raise"
                 /\ ret.exc = "OIDCAuthenticationError" =>
                       (o # EmptyDict => ret.data.missing = MissingIn(o))

-----------------------------------------------------------------------------
(* The triple in memory. *)

\* No authentication method of the manager is executing.
AtRest == op = "idle" \/ pc = "done"

\* C36: at every point where no authentication method is executing, after any
\* sequence of ensure_authenticated, refresh_token, device_flow_auth and
\* check_token_file calls, successful or failed, a non-empty access token in
\* memory implies that the user id is set and is the identity extracted from
\* that same access token.
C36_UserIdOfHeldToken ==
    AtRest /\ Truthy(_access_token) =>
        /\ _user_id # NoneId
        /\ ~_extract_user_id(_access_token).raised
        /\ _user_id = _extract_user_id(_access_token).value

\* A refresh has replaced a token of one identity by a token of another.
C36_Witness ==
    /\ Done("refresh_token")
    /\ ReturnedRecord(ret)
    /\ pre.call.access_token = "Tgood"
    /\ pre.call.user_id = <<"a">>
    /\ _access_token = "Tlong"
    /\ _user_id = <<"p">>

\* has_refresh_token, lines 598-601.
has_refresh_token == _refresh_token # None

\* C37: a successful refresh whose answer omits refresh_token keeps the
\* refresh token held before it in memory, and has_refresh_token stays true;
\* one whose answer carries a refresh_token replaces it.  A successful device
\* flow always replaces the refresh token in memory by the answer's, which is
\* none when the answer omits it.  The same holds when ensure_authenticated
\* has returned after the refresh or the device flow it ran.
C37_RefreshTokenCarriedOver ==
    /\ RtReturned /\ ReturnedRecord(ret) =>
          IF "refresh_token" \in DOMAIN ret.data
          THEN _refresh_token = ret.data["refresh_token"]
          ELSE /\ _refresh_token = pre.rt.refresh_token
               /\ has_refresh_token
    /\ DfReturned /\ ReturnedRecord(ret) =>
          _refresh_token = Get(ret.data, "refresh_token")
    /\ Done("ensure_authenticated") /\ ret = Return("True") =>
          IF ReturnedRecord(cnt.df_ret)
          THEN _refresh_token = Get(cnt.df_ret.data, "refresh_token")
          ELSE ReturnedRecord(cnt.rt_ret) =>
                  _refresh_token = GetOr(cnt.rt_ret.data, "refresh_token",
                                         pre.rt.refresh_token)

\* A refresh whose answer had no refresh_token has returned, and the refresh
\* token it was made with is still held.
C37_Witness ==
    /\ Done("refresh_token")
    /\ ReturnedRecord(ret)
    /\ "refresh_token" \notin DOMAIN ret.data
    /\ pre.rt.refresh_token = "R1"
    /\ _refresh_token = "R1"
    /\ has_refresh_token

\* C38: after every successful refresh or device flow whose save succeeds,
\* the token file agrees with memory: the access_token and the refresh_token
\* stored in the file are the access token and the refresh token held in
\* memory, so that a manager restarted from the file can refresh whenever the
\* running one could.
C38_FileAgreesWithMemory ==
    (RtReturned \/ DfReturned) /\ ReturnedRecord(ret)
    /\ cnt.save > 0 /\ token_file /\ file = FileOf(ret.data) =>
        /\ Get(file.data, "access_token") = _access_token
        /\ Get(file.data, "refresh_token") = _refresh_token
        /\ has_refresh_token => Truthy(Get(file.data, "refresh_token"))

-----------------------------------------------------------------------------
(* The identity is never empty. *)

\* C40: whenever _extract_user_id returns instead of raising, the identity it
\* returns is a non-empty string, for every combination of email,
\* preferred_username and sub claims, an email with an empty local part or
\* without "@" included.
C40_IdentityNeverEmpty ==
    Done("_extract_user_id") /\ ret.kind = "return" => ret.data # <<>>

\* The same for every email but one that begins with "@".
IdentityEmptyOnlyForAtFirst ==
    Done("_extract_user_id") /\ ret.kind = "return" /\ ret.data = <<>> =>
        /\ Present(TheClaims, "email")
        /\ Head(TheClaims["email"]) = "@"
====
